---------------------------- MODULE Spec2Model ----------------------------
(***************************************************************************)
(* LiveAtlas: the update classifier (buildUpdates), the store mutations    *)
(* that reconcile its output into the marker-set model and the pending     *)
(* queues, and the poll loop that drives them.                             *)
(*                                                                         *)
(* A JSON field that may be absent is the empty tuple (undefined) or the   *)
(* one-element tuple Some(v).  A message name is the sequence of the       *)
(* lexical pieces the code tests with startsWith/endsWith, e.g.            *)
(* <<"marker", "updated">> for 'markerupdated'.                            *)
(***************************************************************************)
EXTENDS Integers, Sequences, FiniteSets, TLC

VARIABLES
    markerSets,          \* state.markerSets: set id -> marker set
    pendingSetUpdates,   \* state.pendingSetUpdates: set id -> four queues
    pendingTileUpdates,  \* state.pendingTileUpdates
    chat,                \* state.chat.messages
    updateTimestamp,     \* state.updateTimestamp, as the Date's time value
    worlds,              \* state.worlds: world name -> world
    maps,                \* state.maps: joined key -> map
    currentWorld,        \* state.currentWorld
    currentMap,          \* state.currentMap
    pc,                  \* position of the poll loop
    response,            \* the update response in flight: [updates, timestamp]
    updates,             \* what buildUpdates returned for it
    dropped,             \* the drop counters buildUpdates logged for it
    accepted,            \* the accepted counter buildUpdates logged for it
    redelivery,          \* when the response in flight is the previous one
                         \* again: the drop counters of its first delivery
    polls,               \* update requests issued so far
    before,              \* the store as the commits of the response found it
    players,             \* state.players: account -> player object
    playersInput,        \* the Set handed to SET_PLAYERS_ASYNC, in insertion order
    followTarget,        \* state.followTarget: the player object it refers to
    heap,                \* objects allocated so far
    merged,              \* the registry and the Set as the last
                         \* SET_PLAYERS_ASYNC found them
    loads,               \* player Sets built so far
    loaded,              \* the registry and the Set when the Set was built
    updateRequestId,     \* state.updateRequestId
    inflight,            \* update requests sent and not yet answered
    superseded,          \* the requests that were no longer current when
                         \* their responses arrived
    smallScreen,         \* state.ui.smallScreen
    visibleElements,     \* state.ui.visibleElements, in insertion order
    replica,             \* the renderer's entity maps: set id -> category
                         \* -> id -> entity, made of what it copied and popped
    raised               \* the error the last mutation threw, if any

vars == <<markerSets, pendingSetUpdates, pendingTileUpdates, chat,
          updateTimestamp, worlds, maps, currentWorld, currentMap,
          pc, response, updates, dropped, accepted, redelivery, polls,
          before, players, playersInput, followTarget, heap, merged, loads, loaded,
          updateRequestId, inflight, superseded, smallScreen, visibleElements,
          replica, raised>>

storeVars == <<markerSets, pendingSetUpdates, pendingTileUpdates, chat>>

worldVars == <<worlds, maps, currentWorld, currentMap>>

pollVars == <<pc, response, updates, dropped, accepted, redelivery, polls,
              before>>

playerVars == <<players, playersInput, followTarget, heap, merged, loads,
                loaded>>

requestVars == <<updateRequestId, inflight, superseded>>

uiVars == <<smallScreen, visibleElements>>

rendererVars == <<replica>>

---------------------------------------------------------------------------
(* Bounds of the model.                                                    *)

MaxBatch == 2      \* records in one update response

MaxPolls == 2      \* update requests issued in one behaviour

MaxTime == 2       \* timestamps and watermarks range over 0..MaxTime

MaxPop == 2        \* largest amount a POP_* mutation is called with

MergeLimit == 10   \* players SET_PLAYERS_ASYNC sets in one call

MaxPlayers == 25   \* players in one update response

MaxLoads == 2      \* player Sets merged in one behaviour

MaxRequests == 3   \* update requests sent in one behaviour

---------------------------------------------------------------------------
(* JavaScript values.                                                      *)

undefined == <<>>

Some(v) == <<v>>

\* !!f for a field whose falsy defined value is `falsy` ("" / 0 / FALSE).
Truthy(f, falsy) == f # undefined /\ f[1] # falsy

\* f || default
OrElse(f, falsy, default) == IF Truthy(f, falsy) THEN f[1] ELSE default

\* f || undefined
OrUndefined(f, falsy) == IF Truthy(f, falsy) THEN f ELSE undefined

\* f < n for a numeric field: undefined < n is false.
FieldLess(f, n) == f # undefined /\ f[1] < n

\* msg.startsWith(p) / msg.endsWith(p) on a message name given in pieces.
StartsWith(msg, p) == Len(msg) > 0 /\ msg[1] = p

EndsWith(msg, p) == Len(msg) > 0 /\ msg[Len(msg)] = p

\* typeof z !== 'undefined' && z > -1 ? z : undefined
ZoomBound(z) == IF z # undefined /\ z[1] > -1 THEN z ELSE undefined

\* A Date object is truthy whatever its time value (lastUpdate && ...).
IsTruthyDate(d) == TRUE

\* A function without key k.
Without(f, k) == [x \in DOMAIN f \ {k} |-> f[x]]

\* Map.set(k, v) on a map held as a function.
MapSet(f, k, v) == [x \in DOMAIN f \cup {k} |-> IF x = k THEN v ELSE f[x]]

EmptyMap == [x \in {} |-> undefined]

---------------------------------------------------------------------------
(* Raw update records: every field of the JSON the classifier reads.       *)

FieldNames == {"type", "id", "msg", "set", "ctype", "timestamp", "name",
               "message", "account", "source", "playerName", "channel",
               "label", "hide", "layerprio", "showlabels", "minzoom",
               "maxzoom", "x", "color"}

\* The record with the fields of f present and every other field absent.
Raw(f) == [k \in FieldNames |-> IF k \in DOMAIN f THEN Some(f[k]) ELSE undefined]

---------------------------------------------------------------------------
(* Decoders of api.ts (the fields kept are those the raw records carry).   *)

buildMarkerSet(id, data) ==
    [id         |-> id,
     label      |-> OrElse(data.label, "", "Unnamed set"),
     hidden     |-> OrElse(data.hide, FALSE, FALSE),
     priority   |-> OrElse(data.layerprio, 0, 0),
     showLabels |-> OrUndefined(data.showlabels, FALSE),
     minZoom    |-> ZoomBound(data.minzoom),
     maxZoom    |-> ZoomBound(data.maxzoom)]

buildMarker(marker) ==
    [label    |-> OrElse(marker.label, "", ""),
     location |-> [x |-> OrElse(marker.x, 0, 0)],
     minZoom  |-> ZoomBound(marker.minzoom),
     maxZoom  |-> ZoomBound(marker.maxzoom)]

buildArea(area) ==
    [style   |-> [color |-> OrElse(area.color, "", "#ff0000")],
     label   |-> OrElse(area.label, "", ""),
     minZoom |-> ZoomBound(area.minzoom),
     maxZoom |-> ZoomBound(area.maxzoom)]

buildLine(line) ==
    [style   |-> [color |-> OrElse(line.color, "", "#ff0000")],
     label   |-> OrElse(line.label, "", ""),
     minZoom |-> ZoomBound(line.minzoom),
     maxZoom |-> ZoomBound(line.maxzoom)]

buildCircle(circle) ==
    [location |-> [x |-> OrElse(circle.x, 0, 0)],
     style    |-> [color |-> OrElse(circle.color, "", "#ff0000")],
     label    |-> OrElse(circle.label, "", ""),
     minZoom  |-> ZoomBound(circle.minzoom),
     maxZoom  |-> ZoomBound(circle.maxzoom)]

---------------------------------------------------------------------------
(* buildUpdates.  The classifier's working state is                        *)
(*   [updates |-> [markerSets, tiles, chat], dropped, accepted, threw]     *)
(* where updates.markerSets is a Map in insertion order: [keys, get].      *)

DropReasons == {"stale", "noSet", "noId", "unknownType", "unknownCType",
                "incomplete", "notImplemented"}

EmptyUpdates == [markerSets |-> [keys |-> <<>>, get |-> EmptyMap],
                 tiles |-> <<>>,
                 chat |-> <<>>]

NoDrops == [r \in DropReasons |-> 0]

StartOfBatch == [updates |-> EmptyUpdates, dropped |-> NoDrops,
                 accepted |-> 0, threw |-> FALSE]

\* dropped.<reason>++; continue
Drop(u, reason) == [u EXCEPT !.dropped[reason] = @ + 1]

NewBucket == [areaUpdates |-> <<>>, markerUpdates |-> <<>>,
              lineUpdates |-> <<>>, circleUpdates |-> <<>>,
              removed |-> FALSE, payload |-> undefined]

\* if(!updates.markerSets.has(set)) updates.markerSets.set(set, {...})
EnsureBucket(ms, set) ==
    IF set \in DOMAIN ms.get THEN ms
    ELSE [keys |-> Append(ms.keys, set), get |-> MapSet(ms.get, set, NewBucket)]

\* The update a component record stands for: {id, removed} and its payload.
EntityUpdate(entry, payload) ==
    [id      |-> entry.id[1],
     removed |-> EndsWith(entry.msg[1], "deleted"),
     payload |-> IF EndsWith(entry.msg[1], "deleted") THEN undefined ELSE Some(payload)]

\* Lines 424-441: the set-level branch and the four category branches.
UpdateBucket(bucket, set, entry) ==
    LET msg     == entry.msg[1]
        removed == EndsWith(msg, "deleted")
    IN  IF StartsWith(msg, "set")
        THEN [bucket EXCEPT !.removed = removed,
                            !.payload = IF removed THEN undefined
                                        ELSE Some(buildMarkerSet(set, entry))]
        ELSE IF StartsWith(msg, "marker")
        THEN [bucket EXCEPT !.markerUpdates = Append(@, EntityUpdate(entry, buildMarker(entry)))]
        ELSE IF StartsWith(msg, "area")
        THEN [bucket EXCEPT !.areaUpdates = Append(@, EntityUpdate(entry, buildArea(entry)))]
        ELSE IF StartsWith(msg, "circle")
        THEN [bucket EXCEPT !.circleUpdates = Append(@, EntityUpdate(entry, buildCircle(entry)))]
        ELSE IF StartsWith(msg, "line")
        THEN [bucket EXCEPT !.lineUpdates = Append(@, EntityUpdate(entry, buildLine(entry)))]
        ELSE bucket

\* A component case without the test of ctype: the fault ScenarioADropped
\* excludes.
ClassifyComponentAnyCType(u, entry, lastUpdate) ==
    IF IsTruthyDate(lastUpdate) /\ FieldLess(entry.timestamp, lastUpdate)
    THEN Drop(u, "stale")
    ELSE IF ~Truthy(entry.id, "")
    THEN Drop(u, "noId")
    ELSE IF entry.msg = undefined
    THEN [u EXCEPT !.threw = TRUE]
    ELSE LET set == IF StartsWith(entry.msg[1], "set") THEN entry.id ELSE entry.set
         IN  IF ~Truthy(set, "")
             THEN Drop(u, "noSet")
             ELSE LET ms == EnsureBucket(u.updates.markerSets, set[1])
                  IN  [u EXCEPT !.updates.markerSets =
                                    [ms EXCEPT !.get[set[1]] = UpdateBucket(@, set[1], entry)],
                                !.accepted = @ + 1]

\* case 'component'
ClassifyComponent(u, entry, lastUpdate) ==
    IF IsTruthyDate(lastUpdate) /\ FieldLess(entry.timestamp, lastUpdate)
    THEN Drop(u, "stale")
    ELSE IF ~Truthy(entry.id, "")
    THEN Drop(u, "noId")
    ELSE IF entry.msg = undefined
    THEN [u EXCEPT !.threw = TRUE]      \* entry.msg.startsWith: TypeError
    ELSE LET set == IF StartsWith(entry.msg[1], "set") THEN entry.id ELSE entry.set
         IN  IF ~Truthy(set, "")
             THEN Drop(u, "noSet")
             ELSE IF entry.ctype # Some("markers")
             THEN Drop(u, "unknownCType")
             ELSE LET ms == EnsureBucket(u.updates.markerSets, set[1])
                  IN  [u EXCEPT !.updates.markerSets =
                                    [ms EXCEPT !.get[set[1]] = UpdateBucket(@, set[1], entry)],
                                !.accepted = @ + 1]

\* case 'chat'
ClassifyChat(u, entry, lastUpdate) ==
    IF ~Truthy(entry.message, "") \/ ~Truthy(entry.timestamp, 0)
    THEN Drop(u, "incomplete")
    ELSE IF FieldLess(entry.timestamp, lastUpdate)
    THEN Drop(u, "stale")
    ELSE IF entry.source # Some("player") /\ entry.source # Some("web")
    THEN Drop(u, "notImplemented")
    ELSE [u EXCEPT !.updates.chat = Append(@,
            [type          |-> "chat",
             source        |-> OrUndefined(entry.source, ""),
             playerAccount |-> OrUndefined(entry.account, ""),
             playerName    |-> OrUndefined(entry.playerName, ""),
             message       |-> OrElse(entry.message, "", ""),
             timestamp     |-> entry.timestamp[1],
             channel       |-> OrUndefined(entry.channel, "")])]

\* A join/quit case with the source test of the chat case: the fault
\* ChatAcceptance excludes.
ClassifyJoinQuitBySource(u, entry, lastUpdate, type) ==
    IF ~Truthy(entry.account, "") \/ ~Truthy(entry.timestamp, 0)
    THEN Drop(u, "incomplete")
    ELSE IF FieldLess(entry.timestamp, lastUpdate)
    THEN Drop(u, "stale")
    ELSE IF entry.source # Some("player") /\ entry.source # Some("web")
    THEN Drop(u, "notImplemented")
    ELSE [u EXCEPT !.updates.chat = Append(@,
            [type          |-> type,
             source        |-> undefined,
             playerAccount |-> entry.account,
             playerName    |-> Some(OrElse(entry.playerName, "", "")),
             message       |-> "",
             timestamp     |-> entry.timestamp[1],
             channel       |-> undefined])]

\* case 'playerjoin' / case 'playerquit'
ClassifyJoinQuit(u, entry, lastUpdate, type) ==
    IF ~Truthy(entry.account, "") \/ ~Truthy(entry.timestamp, 0)
    THEN Drop(u, "incomplete")
    ELSE IF FieldLess(entry.timestamp, lastUpdate)
    THEN Drop(u, "stale")
    ELSE [u EXCEPT !.updates.chat = Append(@,
            [type          |-> type,
             source        |-> undefined,
             playerAccount |-> entry.account,
             playerName    |-> Some(OrElse(entry.playerName, "", "")),
             message       |-> "",
             timestamp     |-> entry.timestamp[1],
             channel       |-> undefined])]

\* A tile case that compares with the watermark before it looks for the
\* name: the order StaleCountedOnce excludes.
ClassifyTileStaleFirst(u, entry, lastUpdate) ==
    IF IsTruthyDate(lastUpdate) /\ FieldLess(entry.timestamp, lastUpdate)
    THEN Drop(u, "stale")
    ELSE IF ~Truthy(entry.name, "") \/ ~Truthy(entry.timestamp, 0)
    THEN Drop(u, "incomplete")
    ELSE [u EXCEPT !.updates.tiles = Append(@, [name |-> entry.name[1],
                                                timestamp |-> entry.timestamp[1]]),
                   !.accepted = @ + 1]

\* case 'tile'
ClassifyTile(u, entry, lastUpdate) ==
    IF ~Truthy(entry.name, "") \/ ~Truthy(entry.timestamp, 0)
    THEN Drop(u, "incomplete")
    ELSE IF IsTruthyDate(lastUpdate) /\ FieldLess(entry.timestamp, lastUpdate)
    THEN Drop(u, "stale")
    ELSE [u EXCEPT !.updates.tiles = Append(@, [name |-> entry.name[1],
                                                timestamp |-> entry.timestamp[1]]),
                   !.accepted = @ + 1]

\* One iteration of the loop over the batch: switch(entry.type).
ClassifyEntry(u, entry, lastUpdate) ==
    IF entry.type = Some("component") THEN ClassifyComponent(u, entry, lastUpdate)
    ELSE IF entry.type = Some("chat") THEN ClassifyChat(u, entry, lastUpdate)
    ELSE IF entry.type = Some("playerjoin") THEN ClassifyJoinQuit(u, entry, lastUpdate, "playerjoin")
    ELSE IF entry.type = Some("playerquit") THEN ClassifyJoinQuit(u, entry, lastUpdate, "playerleave")
    ELSE IF entry.type = Some("tile") THEN ClassifyTile(u, entry, lastUpdate)
    ELSE Drop(u, "unknownType")

\* The loop: the working state after the first n records; a throw ends it.
RECURSIVE ClassifyPrefix(_, _, _)
ClassifyPrefix(data, n, lastUpdate) ==
    IF n = 0 THEN StartOfBatch
    ELSE LET u == ClassifyPrefix(data, n - 1, lastUpdate)
         IN  IF u.threw THEN u ELSE ClassifyEntry(u, data[n], lastUpdate)

\* A sort that puts an event before the events of its own timestamp: the
\* fault ChatNewestFirstStable excludes.
RECURSIVE InsertChatBefore(_, _)
InsertChatBefore(sorted, c) ==
    IF sorted = <<>> THEN <<c>>
    ELSE IF Head(sorted).timestamp > c.timestamp
         THEN <<Head(sorted)>> \o InsertChatBefore(Tail(sorted), c)
         ELSE <<c>> \o sorted

\* Array.prototype.sort with (one, two) => two.timestamp - one.timestamp:
\* a stable sort, newest first.
RECURSIVE InsertChat(_, _)
InsertChat(sorted, c) ==
    IF sorted = <<>> THEN <<c>>
    ELSE IF Head(sorted).timestamp >= c.timestamp
         THEN <<Head(sorted)>> \o InsertChat(Tail(sorted), c)
         ELSE <<c>> \o sorted

RECURSIVE SortChat(_)
SortChat(list) ==
    IF list = <<>> THEN <<>>
    ELSE InsertChat(SortChat(SubSeq(list, 1, Len(list) - 1)), list[Len(list)])

buildUpdates(data, lastUpdate) ==
    LET u == ClassifyPrefix(data, Len(data), lastUpdate)
    IN  IF u.threw THEN u
        ELSE [u EXCEPT !.updates.chat = SortChat(@)]

---------------------------------------------------------------------------
(* The marker-set mutations of mutations.ts, as operators on               *)
(*   [markerSets, pendingSetUpdates].                                      *)

EmptyQueues == [markerUpdates |-> <<>>, areaUpdates |-> <<>>,
                circleUpdates |-> <<>>, lineUpdates |-> <<>>]

\* state.markerSets.set(id, {id, ...payload fields, four empty maps})
CreateMarkerSet(id, payload) ==
    [id         |-> id,
     showLabels |-> payload.showLabels,
     minZoom    |-> payload.minZoom,
     maxZoom    |-> payload.maxZoom,
     priority   |-> payload.priority,
     label      |-> payload.label,
     hidden     |-> payload.hidden,
     markers    |-> EmptyMap,
     areas      |-> EmptyMap,
     circles    |-> EmptyMap,
     lines      |-> EmptyMap]

\* An update that puts a set made from the payload in the place of the
\* set: the fault ScalarFieldsOnly excludes.
ReplaceMarkerSet(set, payload) ==
    [id         |-> set.id,
     showLabels |-> payload.showLabels,
     minZoom    |-> payload.minZoom,
     maxZoom    |-> payload.maxZoom,
     priority   |-> payload.priority,
     label      |-> payload.label,
     hidden     |-> payload.hidden,
     markers    |-> EmptyMap,
     areas      |-> EmptyMap,
     circles    |-> EmptyMap,
     lines      |-> EmptyMap]

\* Lines 901-906: the set's scalar fields are overwritten one by one.
UpdateMarkerSet(set, payload) ==
    [set EXCEPT !.showLabels = payload.showLabels,
                !.minZoom    = payload.minZoom,
                !.maxZoom    = payload.maxZoom,
                !.priority   = payload.priority,
                !.label      = payload.label,
                !.hidden     = payload.hidden]

\* One pass of a 'for(const update of ...)' loop over a category's updates.
ApplyUpdate(map, update) ==
    IF update.removed THEN Without(map, update.id)
    ELSE MapSet(map, update.id, update.payload[1])

RECURSIVE ApplyUpdates(_, _)
ApplyUpdates(map, list) ==
    IF list = <<>> THEN map
    ELSE ApplyUpdates(ApplyUpdate(map, Head(list)), Tail(list))

\* Loops that leave the maps alone: the fault DualWrite excludes.
KeepEntities(set, bucket) == set

\* Lines 910-940: the four loops over the bucket's lists.
UpdateEntities(set, bucket) ==
    [set EXCEPT !.markers = ApplyUpdates(@, bucket.markerUpdates),
                !.areas   = ApplyUpdates(@, bucket.areaUpdates),
                !.circles = ApplyUpdates(@, bucket.circleUpdates),
                !.lines   = ApplyUpdates(@, bucket.lineUpdates)]

\* A concatenation in front of the queues: the fault ArrivalOrder excludes.
EnqueueInFront(setUpdates, bucket) ==
    [markerUpdates |-> bucket.markerUpdates \o setUpdates.markerUpdates,
     areaUpdates   |-> bucket.areaUpdates \o setUpdates.areaUpdates,
     circleUpdates |-> bucket.circleUpdates \o setUpdates.circleUpdates,
     lineUpdates   |-> bucket.lineUpdates \o setUpdates.lineUpdates]

\* Lines 943-946: the bucket's lists are concatenated onto the queues.
EnqueueUpdates(setUpdates, bucket) ==
    [markerUpdates |-> setUpdates.markerUpdates \o bucket.markerUpdates,
     areaUpdates   |-> setUpdates.areaUpdates \o bucket.areaUpdates,
     circleUpdates |-> setUpdates.circleUpdates \o bucket.circleUpdates,
     lineUpdates   |-> setUpdates.lineUpdates \o bucket.lineUpdates]

\* Lines 863-882: a set that does not exist is created from the payload.
CreateIfMissing(st, id, bucket) ==
    IF id \in DOMAIN st.markerSets THEN st
    ELSE [markerSets |-> MapSet(st.markerSets, id, CreateMarkerSet(id, bucket.payload[1])),
          pendingSetUpdates |-> MapSet(st.pendingSetUpdates, id, EmptyQueues)]

\* A deletion that empties both maps: the fault CrossSetOrderIrrelevant
\* excludes.
DeleteMarkerSets(st, id) ==
    [markerSets |-> EmptyMap, pendingSetUpdates |-> EmptyMap]

\* A deletion that forgets the queues: the fault QueuesMatchSets excludes.
DeleteMarkerSetOnly(st, id) ==
    [markerSets |-> Without(st.markerSets, id),
     pendingSetUpdates |-> st.pendingSetUpdates]

\* Lines 894-895: the set and its queues are deleted.
DeleteMarkerSet(st, id) ==
    [markerSets |-> Without(st.markerSets, id),
     pendingSetUpdates |-> Without(st.pendingSetUpdates, id)]

\* A pass whose loops run over the queues as it found them, not over the
\* lists of the bucket: the fault AppliedTwiceAsOnce excludes.
UpdateFromQueues(st, id, bucket) ==
    LET set  == st.markerSets[id]
        set1 == IF bucket.payload # undefined
                THEN UpdateMarkerSet(set, bucket.payload[1]) ELSE set
    IN  [markerSets |-> [st.markerSets EXCEPT ![id] =
                            UpdateEntities(set1, st.pendingSetUpdates[id])],
         pendingSetUpdates |->
             [st.pendingSetUpdates EXCEPT ![id] = EnqueueUpdates(@, bucket)]]

\* Lines 899-946: the set is updated, its entities too, the queues grow.
UpdateExisting(st, id, bucket) ==
    LET set  == st.markerSets[id]
        set1 == IF bucket.payload # undefined
                THEN UpdateMarkerSet(set, bucket.payload[1]) ELSE set
    IN  [markerSets |-> [st.markerSets EXCEPT ![id] = UpdateEntities(set1, bucket)],
         pendingSetUpdates |->
             [st.pendingSetUpdates EXCEPT ![id] = EnqueueUpdates(@, bucket)]]

\* A pass that makes up a set for a bucket without payload: the fault
\* SkippedWithoutPayload excludes.
ApplyBucketAlways(st, id, bucket) ==
    LET payload == IF bucket.payload = undefined
                   THEN Some(buildMarkerSet(id, Raw(EmptyMap))) ELSE bucket.payload
        st1 == CreateIfMissing(st, id, [bucket EXCEPT !.payload = payload])
    IN  IF bucket.removed THEN DeleteMarkerSet(st1, id)
        ELSE UpdateExisting(st1, id, bucket)

\* One pass of the loop of ADD_MARKER_SET_UPDATES: one [set id, bucket] entry.
ApplyBucket(st, id, bucket) ==
    IF id \notin DOMAIN st.markerSets /\ bucket.payload = undefined
    THEN st                                       \* console.warn; continue
    ELSE LET st1 == CreateIfMissing(st, id, bucket)
         IN  IF bucket.removed THEN DeleteMarkerSet(st1, id)
             ELSE UpdateExisting(st1, id, bucket)

\* The loop over the first n entries of the Map, in insertion order.
RECURSIVE ApplyBuckets(_, _, _)
ApplyBuckets(st, ms, n) ==
    IF n = 0 THEN st
    ELSE ApplyBucket(ApplyBuckets(st, ms, n - 1), ms.keys[n], ms.get[ms.keys[n]])

AddMarkerSetUpdates(st, ms) == ApplyBuckets(st, ms, Len(ms.keys))

\* array.splice(0, amount)
\* A splice at the wrong end of the list: the fault FifoQueues excludes.
SpliceNewest(list, amount) ==
    IF amount >= Len(list) THEN <<>> ELSE SubSeq(list, 1, Len(list) - amount)

Splice(list, amount) ==
    IF amount >= Len(list) THEN <<>> ELSE SubSeq(list, amount + 1, Len(list))

\* state.pendingTileUpdates.concat(updates)
AddTileUpdates(pending, tiles) == pending \o tiles

\* state.chat.messages.unshift(...chat)
AddChat(messages, list) == list \o messages

Categories == {"markerUpdates", "areaUpdates", "circleUpdates", "lineUpdates"}

PopUpdates(pending, markerSet, category, amount) ==
    [pending EXCEPT ![markerSet][category] = Splice(@, amount)]

\* What splice(0, amount) takes from the list.
Spliced(list, amount) ==
    IF amount >= Len(list) THEN list ELSE SubSeq(list, 1, amount)

\* The renderer's copy of the four maps of a set, each under the category of
\* the queue that carries its updates.
CopyOf(set) ==
    [markerUpdates |-> set.markers, areaUpdates |-> set.areas,
     circleUpdates |-> set.circles, lineUpdates |-> set.lines]

\* The renderer copies every set a marker fetch returned.
CopySets(sets) == [id \in DOMAIN sets |-> CopyOf(sets[id])]

\* After ADD_MARKER_SET_UPDATES the renderer holds the sets the store holds:
\* it forgets a deleted set and starts a created one from the empty maps
\* the set was created with.
FollowSets(copies, sets) ==
    [id \in DOMAIN sets |->
        IF id \in DOMAIN copies THEN copies[id]
        ELSE [category \in Categories |-> EmptyMap]]

\* A renderer that takes what it pops for applied already: the fault
\* ReplicaFollows excludes.
DiscardPopped(copies, markerSet, category, popped) == copies

\* The renderer applies what it popped, in queue order.
ApplyPopped(copies, markerSet, category, popped) ==
    [copies EXCEPT ![markerSet][category] = ApplyUpdates(@, popped)]

---------------------------------------------------------------------------
(* Inputs: the records an update response may carry, the marker sets a     *)
(* marker fetch may return, the world configuration.                       *)

Times == 0..MaxTime

SetIds == {"s1", "s2"}

Component(msg, id, set, timestamp, label) ==
    Raw([type |-> "component", msg |-> msg, id |-> id, set |-> set,
         ctype |-> "markers", timestamp |-> timestamp, label |-> label])

SetComponent(msg, id, timestamp, label) ==
    Raw([type |-> "component", msg |-> msg, id |-> id,
         ctype |-> "markers", timestamp |-> timestamp, label |-> label])

\* Well-formed component records: set-level and entity-level, all four
\* categories, creations, replacements and deletions.
ComponentRecords ==
    { SetComponent(<<"set", "updated">>, "s1", 1, "A"),
      SetComponent(<<"set", "updated">>, "s2", 1, ""),
      SetComponent(<<"set", "deleted">>, "s1", 1, ""),
      Component(<<"marker", "updated">>, "m1", "s1", 1, "A"),
      Component(<<"marker", "updated">>, "m1", "s1", 1, "B"),
      Component(<<"marker", "deleted">>, "m1", "s1", 1, ""),
      Component(<<"marker", "updated">>, "m2", "s2", 1, "A"),
      Component(<<"area", "updated">>, "a1", "s1", 1, "A"),
      Component(<<"area", "deleted">>, "a1", "s1", 1, ""),
      Component(<<"circle", "updated">>, "c1", "s1", 1, "A"),
      Component(<<"circle", "deleted">>, "c1", "s1", 1, ""),
      Component(<<"line", "updated">>, "l1", "s1", 1, "A"),
      Component(<<"line", "deleted">>, "l1", "s1", 1, "") }

\* Component records the classifier rejects, mishandles or accepts without
\* a timestamp.
OddComponentRecords ==
    { Raw([type |-> "component", msg |-> <<"marker", "updated">>, set |-> "s1",
           ctype |-> "markers", timestamp |-> 1]),
      Raw([type |-> "component", msg |-> <<"marker", "updated">>, id |-> "m1",
           ctype |-> "markers", timestamp |-> 1]),
      Raw([type |-> "component", msg |-> <<"marker", "updated">>, id |-> "m1",
           set |-> "s1", ctype |-> "other", timestamp |-> 1]),
      Raw([type |-> "component", msg |-> <<"set", "updated">>, id |-> "s1"]),
      Raw([type |-> "component", id |-> "m1", set |-> "s1",
           ctype |-> "markers", timestamp |-> 1]),
      Raw([type |-> "component", msg |-> <<"poly", "updated">>, id |-> "l1",
           set |-> "s1", ctype |-> "markers", timestamp |-> 1]),
      Raw([type |-> "component", msg |-> <<"marker", "updated">>, id |-> "m1",
           set |-> "s1", ctype |-> "markers", label |-> "A"]) }

ChatRecords ==
    { Raw([type |-> "chat", message |-> "hi", timestamp |-> 1, source |-> "player",
           account |-> "alice", playerName |-> "Alice"]),
      Raw([type |-> "chat", message |-> "yo", timestamp |-> 2, source |-> "web"]),
      Raw([type |-> "chat", timestamp |-> 1, source |-> "player"]),
      Raw([type |-> "chat", message |-> "hi", source |-> "player"]),
      Raw([type |-> "chat", message |-> "hi", timestamp |-> 1, source |-> "plugin"]),
      Raw([type |-> "chat", message |-> "hi", timestamp |-> 1]),
      Raw([type |-> "playerjoin", account |-> "alice", timestamp |-> 1]),
      Raw([type |-> "playerjoin", timestamp |-> 1, source |-> "player"]),
      Raw([type |-> "playerquit", account |-> "alice", timestamp |-> 2,
           playerName |-> "Alice"]),
      Raw([type |-> "playerquit", account |-> "alice"]),
      Raw([type |-> "playerjoin", account |-> "bob", timestamp |-> 2,
           source |-> "plugin"]),
      Raw([type |-> "chat", message |-> "hi", timestamp |-> 0, source |-> "player"]) }

TileRecords ==
    { Raw([type |-> "tile", name |-> "t1", timestamp |-> 1]),
      Raw([type |-> "tile", name |-> "t2", timestamp |-> 2]),
      Raw([type |-> "tile", timestamp |-> 1]),
      Raw([type |-> "tile", name |-> "t1"]),
      Raw([type |-> "tile", name |-> "t1", timestamp |-> 0]) }

OtherRecords ==
    { Raw([type |-> "foo", id |-> "m1", timestamp |-> 1]),
      Raw([id |-> "m1", timestamp |-> 1]) }

\* Every record an update response is given.
Records ==
    ComponentRecords \cup OddComponentRecords \cup ChatRecords \cup TileRecords
        \cup OtherRecords

\* The records that surround a record of Records in a response.
ContextRecords ==
    { Component(<<"marker", "updated">>, "m1", "s1", 1, "B"),
      SetComponent(<<"set", "deleted">>, "s1", 1, ""),
      Raw([type |-> "chat", message |-> "hi", timestamp |-> 1, source |-> "player",
           account |-> "alice", playerName |-> "Alice"]),
      Raw([type |-> "tile", name |-> "t1", timestamp |-> 1]) }

\* The records of the store's own specification: marker sets and markers.
StoreRecords ==
    { SetComponent(<<"set", "updated">>, "s1", 1, "A"),
      SetComponent(<<"set", "deleted">>, "s1", 1, ""),
      Component(<<"marker", "updated">>, "m1", "s1", 1, "A"),
      Component(<<"marker", "deleted">>, "m1", "s1", 1, ""),
      Component(<<"marker", "updated">>, "m2", "s2", 1, "A"),
      Raw([type |-> "tile", name |-> "t1", timestamp |-> 1]) }

\* Sequences of at most n elements of S.
SeqsUpTo(S, n) == UNION {[1..k -> S] : k \in 0..n}

\* A marker set as getMarkerSets builds it from the marker file.
FetchedSet(id, data, markers, areas, circles, lines) ==
    LET set == buildMarkerSet(id, data)
    IN  [id         |-> set.id,
         showLabels |-> set.showLabels,
         minZoom    |-> set.minZoom,
         maxZoom    |-> set.maxZoom,
         priority   |-> set.priority,
         label      |-> set.label,
         hidden     |-> set.hidden,
         markers    |-> [k \in DOMAIN markers |-> buildMarker(markers[k])],
         areas      |-> [k \in DOMAIN areas |-> buildArea(areas[k])],
         circles    |-> [k \in DOMAIN circles |-> buildCircle(circles[k])],
         lines      |-> [k \in DOMAIN lines |-> buildLine(lines[k])]]

\* Responses: one record of Records among at most MaxBatch - 1 context
\* records, in any position; and the empty response.
Responses ==
    {<<>>} \cup
    { r[2] \o <<r[1]>> \o r[3] : r \in
      { x \in Records \X SeqsUpTo(ContextRecords, MaxBatch - 1)
                      \X SeqsUpTo(ContextRecords, MaxBatch - 1) :
        Len(x[2]) + Len(x[3]) < MaxBatch } }

FetchedS1 ==
    FetchedSet("s1", Raw([label |-> "A"]),
               [m1 |-> Raw([label |-> "A"])], [a1 |-> Raw([label |-> "A"])],
               [c1 |-> Raw([label |-> "A"])], [l1 |-> Raw([label |-> "A"])])

FetchedS2 ==
    FetchedSet("s2", Raw([label |-> "B", hide |-> TRUE]),
               [m2 |-> Raw([label |-> "B"])], EmptyMap, EmptyMap, EmptyMap)

\* What a marker fetch may return.
FetchedMarkerSets ==
    { EmptyMap, [s1 |-> FetchedS1], [s1 |-> FetchedS1, s2 |-> FetchedS2] }

\* World and map names are sequences of characters, so that join('_') is
\* the concatenation it is.
Join(worldName, mapName) == worldName \o <<"_">> \o mapName

WorldNames == { <<"w">>, <<"v">>, <<"u">> }

MapNames == { <<"flat">>, <<"cave">> }

\* The worlds of configuration.json, as SET_WORLDS receives them.
\* The worlds of the configuration; ref is the identity of the object.
ConfiguredWorlds ==
    << [ref |-> 1, name |-> <<"w">>, maps |-> << <<"flat">>, <<"cave">> >>],
       [ref |-> 2, name |-> <<"v">>, maps |-> << <<"flat">> >>] >>

\* The worlds ADD_WORLD is called with: another object for a configured
\* name, and a world the configuration lacks.
AddedWorlds ==
    { [ref |-> 3, name |-> <<"w">>, maps |-> << <<"flat">>, <<"cave">> >>],
      [ref |-> 4, name |-> <<"u">>, maps |-> << <<"flat">> >>] }

---------------------------------------------------------------------------
(* The store after construction (state.ts) and the idle poll loop.         *)

NoResponse == <<>>

NoSnapshot == <<>>

NotRedelivered == <<>>

Init ==
    /\ markerSets = EmptyMap
    /\ pendingSetUpdates = EmptyMap
    /\ pendingTileUpdates = <<>>
    /\ chat = <<>>
    /\ updateTimestamp \in Times          \* new Date(): the time of start-up
    /\ worlds = EmptyMap
    /\ maps = EmptyMap
    /\ currentWorld = undefined
    /\ currentMap = undefined
    /\ pc = "idle"
    /\ response = NoResponse
    /\ updates = EmptyUpdates
    /\ dropped = NoDrops
    /\ accepted = 0
    /\ redelivery = NotRedelivered
    /\ polls = 0
    /\ before = NoSnapshot
    /\ players = EmptyMap
    /\ playersInput = <<>>
    /\ followTarget = undefined
    /\ heap = 0
    /\ merged = NoSnapshot
    /\ loads = 0
    /\ loaded = NoSnapshot
    /\ updateRequestId = 0
    /\ inflight = {}
    /\ superseded = {}
    /\ smallScreen = FALSE
    /\ visibleElements = <<>>
    /\ replica = EmptyMap
    /\ raised = "none"

---------------------------------------------------------------------------
(* Mutations.                                                              *)

\* Classification and the commits that follow it run without suspension, and
\* classification reads nothing but the watermark: a mutation committed
\* while the response is awaited acts as one committed before the request.
AtSuspension == pc \in {"idle", "redeliver"}

\* The maps of state.maps after the forEach over worlds[1..n].
RECURSIVE MapsOfWorld(_, _, _)
MapsOfWorld(acc, world, n) ==
    IF n = 0 THEN acc
    ELSE MapSet(MapsOfWorld(acc, world, n - 1), Join(world.name, world.maps[n]),
                [world |-> world.name, name |-> world.maps[n]])

RECURSIVE RegisterWorlds(_, _)
RegisterWorlds(list, n) ==
    IF n = 0 THEN [worlds |-> EmptyMap, maps |-> EmptyMap]
    ELSE LET rest == RegisterWorlds(list, n - 1)
         IN  [worlds |-> MapSet(rest.worlds, list[n].name, list[n]),
              maps   |-> MapsOfWorld(rest.maps, list[n], Len(list[n].maps))]

SET_WORLDS(list) ==
    /\ AtSuspension
    /\ worlds' = RegisterWorlds(list, Len(list)).worlds
    /\ maps' = RegisterWorlds(list, Len(list)).maps
    /\ currentMap' = undefined
    /\ currentWorld' = undefined
    /\ followTarget' = undefined
    /\ merged' = NoSnapshot
    /\ raised' = "none"
    /\ UNCHANGED <<players, playersInput, heap, loads, loaded, requestVars,
                   uiVars, rendererVars, storeVars, updateTimestamp, pollVars>>

\* state.worlds.set(world.name, world): the maps of the world are not
\* registered.
ADD_WORLD(world) ==
    /\ AtSuspension
    /\ worlds' = MapSet(worlds, world.name, world)
    /\ raised' = "none"
    /\ UNCHANGED <<playerVars, requestVars, uiVars, rendererVars, storeVars,
                   updateTimestamp, maps, currentWorld, currentMap, pollVars>>

SET_MARKER_SETS(sets) ==
    /\ AtSuspension
    /\ markerSets' = sets
    /\ pendingSetUpdates' = [id \in DOMAIN sets |-> EmptyQueues]
    /\ replica' = CopySets(sets)
    /\ raised' = "none"
    /\ UNCHANGED <<playerVars, requestVars, uiVars, pendingTileUpdates, chat, updateTimestamp, worldVars, pollVars>>

\* A selection that takes two worlds of one name for the same world: the
\* fault MapSelection excludes.
SetCurrentMapByName(worldName, mapName) ==
    LET key == Join(worldName, mapName)
    IN  /\ AtSuspension
        /\ IF worldName \notin DOMAIN worlds \/ key \notin DOMAIN maps
              THEN /\ raised' = "RangeError"
                   /\ UNCHANGED <<playerVars, requestVars, uiVars, rendererVars, storeVars, updateTimestamp, worldVars, pollVars>>
              ELSE /\ raised' = "none"
                   /\ currentWorld' = Some(worlds[worldName])
                   /\ IF currentWorld = undefined
                         \/ currentWorld[1].name # worldName
                         THEN /\ markerSets' = EmptyMap
                              /\ pendingSetUpdates' = EmptyMap
                              /\ pendingTileUpdates' = <<>>
                              /\ replica' = EmptyMap
                         ELSE UNCHANGED <<markerSets, pendingSetUpdates,
                                          pendingTileUpdates, replica>>
                   /\ currentMap' = Some(maps[key])
                   /\ UNCHANGED <<playerVars, requestVars, uiVars, chat, updateTimestamp, worlds, maps, pollVars>>

SET_CURRENT_MAP(worldName, mapName) ==
    LET key == Join(worldName, mapName)
    IN  /\ AtSuspension
        /\ IF worldName \notin DOMAIN worlds \/ key \notin DOMAIN maps
              THEN /\ raised' = "RangeError"
                   /\ UNCHANGED <<playerVars, requestVars, uiVars, rendererVars, storeVars, updateTimestamp, worldVars, pollVars>>
              ELSE /\ raised' = "none"
                   /\ IF currentWorld # Some(worlds[worldName])
                         THEN /\ currentWorld' = Some(worlds[worldName])
                              /\ markerSets' = EmptyMap
                              /\ pendingSetUpdates' = EmptyMap
                              /\ pendingTileUpdates' = <<>>
                              /\ replica' = EmptyMap
                         ELSE UNCHANGED <<currentWorld, markerSets,
                                          pendingSetUpdates, pendingTileUpdates,
                                          replica>>
                   /\ currentMap' = Some(maps[key])
                   /\ UNCHANGED <<playerVars, requestVars, uiVars, chat, updateTimestamp, worlds, maps, pollVars>>


\* A pop that takes the addressed set out of the model with the updates it
\* hands out: the fault PopsLeaveModel excludes.
PopAndForget(category, markerSet, amount) ==
    /\ AtSuspension
    /\ IF markerSet \notin DOMAIN markerSets
       THEN UNCHANGED <<markerSets, pendingSetUpdates, replica>>
       ELSE /\ pendingSetUpdates' = PopUpdates(pendingSetUpdates, markerSet, category, amount)
            /\ replica' = ApplyPopped(replica, markerSet, category,
                              Spliced(pendingSetUpdates[markerSet][category], amount))
            /\ markerSets' = IF amount > 0 /\ pendingSetUpdates[markerSet][category] # <<>>
                             THEN [markerSets EXCEPT ![markerSet].markers = EmptyMap]
                             ELSE markerSets
    /\ raised' = "none"
    /\ UNCHANGED <<playerVars, requestVars, uiVars, pendingTileUpdates, chat, updateTimestamp,
                   worldVars, pollVars>>

\* POP_MARKER_UPDATES, POP_AREA_UPDATES, POP_CIRCLE_UPDATES, POP_LINE_UPDATES
PopSetUpdates(category, markerSet, amount) ==
    /\ AtSuspension
    /\ IF markerSet \notin DOMAIN markerSets
       THEN UNCHANGED <<pendingSetUpdates, replica>>   \* console.warn; return
       ELSE /\ pendingSetUpdates' = PopUpdates(pendingSetUpdates, markerSet, category, amount)
            /\ replica' = ApplyPopped(replica, markerSet, category,
                              Spliced(pendingSetUpdates[markerSet][category], amount))
    /\ raised' = "none"
    /\ UNCHANGED <<playerVars, requestVars, uiVars, markerSets, pendingTileUpdates, chat, updateTimestamp,
                   worldVars, pollVars>>

POP_MARKER_UPDATES(markerSet, amount) == PopSetUpdates("markerUpdates", markerSet, amount)

POP_AREA_UPDATES(markerSet, amount) == PopSetUpdates("areaUpdates", markerSet, amount)

POP_CIRCLE_UPDATES(markerSet, amount) == PopSetUpdates("circleUpdates", markerSet, amount)

POP_LINE_UPDATES(markerSet, amount) == PopSetUpdates("lineUpdates", markerSet, amount)

POP_TILE_UPDATES(amount) ==
    /\ AtSuspension
    /\ pendingTileUpdates' = Splice(pendingTileUpdates, amount)
    /\ raised' = "none"
    /\ UNCHANGED <<playerVars, requestVars, uiVars, rendererVars, markerSets, pendingSetUpdates, chat, updateTimestamp,
                   worldVars, pollVars>>

---------------------------------------------------------------------------
(* The poll loop: request, classify, reconcile, advance the watermark.     *)

\* getUpdate: the response's records are classified against the watermark.
Classify(data) ==
    LET u == buildUpdates(data, updateTimestamp)
    IN  /\ response' = data
        /\ pc' = IF u.threw THEN "failed" ELSE "classified"
        /\ updates' = IF u.threw THEN EmptyUpdates ELSE u.updates
        /\ dropped' = IF u.threw THEN NoDrops ELSE u.dropped
        /\ accepted' = IF u.threw THEN 0 ELSE u.accepted
        /\ raised' = "none"
        /\ UNCHANGED <<playerVars, requestVars, uiVars, rendererVars, storeVars, updateTimestamp, worldVars, before>>

\* A request is answered by one of `responses`.
GetUpdate(responses) ==
    /\ pc = "idle"
    /\ polls < MaxPolls
    /\ polls' = polls + 1
    /\ redelivery' = NotRedelivered
    /\ \E data \in responses : Classify(data)

\* The same records arrive again with the next response.
GetUpdateAgain ==
    /\ pc = "redeliver"
    /\ redelivery' = Some(dropped)
    /\ UNCHANGED polls
    /\ Classify(response)

\* The request's promise is rejected; nothing of the response is applied.
UpdateFailed ==
    /\ pc = "failed"
    /\ pc' = "idle"
    /\ response' = NoResponse
    /\ redelivery' = NotRedelivered
    /\ raised' = "none"
    /\ UNCHANGED <<playerVars, requestVars, uiVars, rendererVars, storeVars, updateTimestamp, worldVars, updates, dropped,
                   accepted, polls, before>>

ADD_MARKER_SET_UPDATES ==
    /\ pc = "classified"
    /\ LET st == AddMarkerSetUpdates([markerSets |-> markerSets,
                                      pendingSetUpdates |-> pendingSetUpdates],
                                     updates.markerSets)
       IN  /\ markerSets' = st.markerSets
           /\ pendingSetUpdates' = st.pendingSetUpdates
           /\ replica' = FollowSets(replica, st.markerSets)
    /\ pc' = "sets"
    /\ before' = [markerSets |-> markerSets,
                  pendingSetUpdates |-> pendingSetUpdates,
                  pendingTileUpdates |-> pendingTileUpdates,
                  chat |-> chat]
    /\ raised' = "none"
    /\ UNCHANGED <<playerVars, requestVars, uiVars, pendingTileUpdates, chat, updateTimestamp, worldVars,
                   response, updates, dropped, accepted, redelivery, polls>>

ADD_TILE_UPDATES ==
    /\ pc = "sets"
    /\ pendingTileUpdates' = AddTileUpdates(pendingTileUpdates, updates.tiles)
    /\ pc' = "tiles"
    /\ raised' = "none"
    /\ UNCHANGED <<playerVars, requestVars, uiVars, rendererVars, markerSets, pendingSetUpdates, chat, updateTimestamp, worldVars,
                   response, updates, dropped, accepted, redelivery, polls, before>>

ADD_CHAT ==
    /\ pc = "tiles"
    /\ chat' = AddChat(chat, updates.chat)
    /\ pc' = "chat"
    /\ raised' = "none"
    /\ UNCHANGED <<playerVars, requestVars, uiVars, rendererVars, markerSets, pendingSetUpdates, pendingTileUpdates,
                   updateTimestamp, worldVars,
                   response, updates, dropped, accepted, redelivery, polls, before>>

\* The watermark is set from the response; the loop then idles, or the
\* server delivers the same records once more.
SET_UPDATE_TIMESTAMP(timestamp, next) ==
    /\ pc = "chat"
    /\ updateTimestamp' = timestamp
    /\ pc' = next
    /\ next = "redeliver" => redelivery = NotRedelivered
    /\ response' = IF next = "idle" THEN NoResponse ELSE response
    /\ updates' = EmptyUpdates
    /\ dropped' = IF next = "idle" THEN NoDrops ELSE dropped
    /\ accepted' = 0
    /\ redelivery' = NotRedelivered
    /\ before' = NoSnapshot
    /\ raised' = "none"
    /\ UNCHANGED <<playerVars, requestVars, uiVars, rendererVars, storeVars, worldVars, polls>>

---------------------------------------------------------------------------
(* The player registry.  An object is a record that carries its identity   *)
(* in the field ref; heap counts the objects allocated so far.  Of the     *)
(* scalar fields of a player, health stands for armor, name and sort,      *)
(* which the code treats alike, and world for the rest of the location.    *)

\* The players of a response: n players, the first anon of them without an
\* account; health and world vary with the position and with h.
RawPlayers(n, anon, h) ==
    [i \in 1..n |->
        [account |-> IF i <= anon THEN undefined ELSE Some(ToString(i)),
         health  |-> IF (i + h) % 3 = 0 THEN undefined ELSE Some((i + h) % 3),
         world   |-> CASE (i + h) % 3 = 0 -> Some("world")
                       [] (i + h) % 3 = 1 -> Some("-some-other-bogus-world-")
                       [] OTHER -> undefined]]

\* The sizes around the limit of one call, and the largest.
PlayerCounts ==
    {0, MergeLimit - 1, MergeLimit, MergeLimit + 1, MaxPlayers}

PlayerResponses ==
    {RawPlayers(n, anon, h) : n \in PlayerCounts, anon \in {0, 2}, h \in {0, 1}}

\* The snapshot getUpdate builds of one player; ref is the identity of its
\* location object.
Player(player, ref) ==
    LET world == IF Truthy(player.world, "")
                    /\ player.world[1] # "-some-other-bogus-world-"
                 THEN player.world ELSE undefined
    IN  [account  |-> OrElse(player.account, "", ""),
         health   |-> OrElse(player.health, 0, 0),
         hidden   |-> world = undefined,
         location |-> [ref |-> ref, world |-> world]]

\* The accounts of a Set of snapshots: the keep set of SYNC_PLAYERS.
AccountsIn(list) == {list[i].account : i \in 1..Len(list)}

\* The Set of snapshots of a response, in insertion order.
BuildPlayers(list, allocated) ==
    [i \in 1..Len(list) |-> Player(list[i], allocated + i)]

\* The loop body that leaves an entry it finds as it is: the fault
\* MergeAllLastSnapshot excludes.
InsertPlayer(st) ==
    LET player == Head(st.input)
    IN  [players |-> IF player.account \in DOMAIN st.players THEN st.players
                     ELSE MapSet(st.players, player.account,
                                 [ref |-> st.heap + 1,
                                  account |-> player.account,
                                  health |-> player.health,
                                  location |-> player.location,
                                  hidden |-> player.hidden]),
         input |-> Tail(st.input),
         heap |-> st.heap + 1]

\* The loop body that sets a new object whether or not the registry has the
\* account: the fault EntryKeptInPlace excludes.
ReplacePlayer(st) ==
    LET player == Head(st.input)
    IN  [players |-> MapSet(st.players, player.account,
                            [ref |-> st.heap + 1,
                             account |-> player.account,
                             health |-> player.health,
                             location |-> player.location,
                             hidden |-> player.hidden]),
         input |-> Tail(st.input),
         heap |-> st.heap + 1]

\* A loop body that leaves the player in the Set: the fault DrainTerminates
\* excludes.
SetPlayerAndKeep(st) ==
    LET player == Head(st.input)
    IN  IF player.account \in DOMAIN st.players
        THEN [st EXCEPT !.players[player.account].health = player.health]
        ELSE [players |-> MapSet(st.players, player.account,
                        [ref |-> st.heap + 1,
                         account |-> player.account,
                         health |-> player.health,
                         location |-> player.location,
                         hidden |-> player.hidden]),
              input |-> st.input,
              heap |-> st.heap + 1]

\* A pass that inserts an entry without its account: the fault
\* KeyedByAccount excludes.
SetPlayerUnnamed(st) ==
    LET player == Head(st.input)
    IN  IF player.account \in DOMAIN st.players
        THEN LET existing == st.players[player.account]
             IN  [players |-> MapSet(st.players, player.account,
                        [existing EXCEPT
                            !.health = player.health,
                            !.location = [ref |-> existing.location.ref,
                                          world |-> player.location.world],
                            !.hidden = player.hidden]),
                  input |-> Tail(st.input),
                  heap |-> st.heap]
        ELSE [players |-> MapSet(st.players, player.account,
                        [ref |-> st.heap + 1,
                         account |-> "",
                         health |-> player.health,
                         location |-> player.location,
                         hidden |-> player.hidden]),
              input |-> Tail(st.input),
              heap |-> st.heap + 1]

\* One pass of the loop of SET_PLAYERS_ASYNC over the player at the head of
\* the Set: st is [players, input, heap].
SetPlayer(st) ==
    LET player == Head(st.input)
    IN  IF player.account \in DOMAIN st.players
        THEN LET existing == st.players[player.account]
             IN  [players |-> MapSet(st.players, player.account,
                        [existing EXCEPT
                            !.health = player.health,
                            !.location = [ref |-> existing.location.ref,
                                          world |-> player.location.world],
                            !.hidden = player.hidden]),
                  input |-> Tail(st.input),
                  heap |-> st.heap]
        ELSE [players |-> MapSet(st.players, player.account,
                        [ref |-> st.heap + 1,
                         account |-> player.account,
                         health |-> player.health,
                         location |-> player.location,
                         hidden |-> player.hidden]),
              input |-> Tail(st.input),
              heap |-> st.heap + 1]

RECURSIVE SetPlayersFrom(_, _)
SetPlayersFrom(st, count) ==
    IF st.input = <<>> THEN st
    ELSE IF count + 1 >= MergeLimit THEN SetPlayer(st)
    ELSE SetPlayersFrom(SetPlayer(st), count + 1)

\* SET_PLAYERS_ASYNC without its limit: the fault MergeUpToLimit excludes.
RECURSIVE SetAllPlayers(_)
SetAllPlayers(st) ==
    IF st.input = <<>> THEN st ELSE SetAllPlayers(SetPlayer(st))

SetPlayersAsync(st) == SetPlayersFrom(st, 0)

\* SYNC_PLAYERS with its test inverted: the fault SyncKeepsExactly excludes.
SyncPlayersKept(registry, keep) ==
    [key \in {k \in DOMAIN registry : registry[k].account \notin keep}
        |-> registry[key]]

\* A SYNC_PLAYERS that deletes nothing: the fault SweepThenMergeExact
\* excludes.
SyncPlayersNothing(registry, keep) == registry

SyncPlayers(registry, keep) ==
    [key \in {k \in DOMAIN registry : registry[k].account \in keep}
        |-> registry[key]]

Registry == [players |-> players, input |-> playersInput, heap |-> heap]

\* What the mutation `by` found when it was called.
Found(by, keep) ==
    [by |-> by, keep |-> keep, players |-> players, input |-> playersInput,
     heap |-> heap, followTarget |-> followTarget]

\* The caller hands the players of a response to the registry: a Set of
\* snapshots that SET_PLAYERS_ASYNC is run on until it is empty.
SetPlayers(list) ==
    /\ playersInput = <<>>
    /\ loads < MaxLoads
    /\ loads' = loads + 1
    /\ playersInput' = BuildPlayers(list, heap)
    /\ heap' = heap + Len(list)
    /\ loaded' = [players |-> players, input |-> playersInput',
                  calls |-> <<>>, synced |-> FALSE, sweep |-> "none"]
    /\ merged' = NoSnapshot
    /\ UNCHANGED <<players, followTarget, requestVars, uiVars, rendererVars, storeVars,
                   updateTimestamp, worldVars, pollVars, raised>>

\* The caller runs it once on the Set it built, and again while snapshots
\* remain; loaded.calls lists how many each call took from the Set.
SET_PLAYERS_ASYNC ==
    /\ loaded # NoSnapshot
    /\ playersInput # <<>> \/ loaded.calls = <<>>
    /\ LET st == SetPlayersAsync(Registry)
       IN  /\ players' = st.players
           /\ playersInput' = st.input
           /\ heap' = st.heap
           /\ loaded' = [loaded EXCEPT !.calls =
                            Append(@, Len(playersInput) - Len(st.input))]
    /\ merged' = Found("SET_PLAYERS_ASYNC", {})
    /\ UNCHANGED <<followTarget, loads, requestVars, uiVars, rendererVars, storeVars,
                   updateTimestamp, worldVars, pollVars, raised>>

SYNC_PLAYERS(keep) ==
    /\ players' = SyncPlayers(players, keep)
    /\ merged' = Found("SYNC_PLAYERS", keep)
    /\ loaded' = IF loaded = NoSnapshot THEN loaded
                 ELSE [loaded EXCEPT
                          !.synced = TRUE,
                          !.sweep = IF /\ loaded.sweep = "none"
                                       /\ loaded.calls = <<>>
                                       /\ keep = AccountsIn(loaded.input)
                                    THEN "first" ELSE "other"]
    /\ UNCHANGED <<playersInput, followTarget, heap, loads, requestVars, uiVars, rendererVars,
                   storeVars, updateTimestamp, worldVars, pollVars, raised>>

SET_FOLLOW_TARGET(player) ==
    /\ followTarget' = Some(player.ref)
    /\ merged' = NoSnapshot
    /\ UNCHANGED <<players, playersInput, heap, loads, loaded,
                   requestVars, uiVars, rendererVars, storeVars, updateTimestamp, worldVars,
                   pollVars, raised>>

CLEAR_FOLLOW_TARGET ==
    /\ followTarget' = undefined
    /\ merged' = NoSnapshot
    /\ UNCHANGED <<players, playersInput, heap, loads, loaded,
                   requestVars, uiVars, rendererVars, storeVars, updateTimestamp, worldVars,
                   pollVars, raised>>

---------------------------------------------------------------------------
(* Update requests in flight.  getUpdate is handed the request id and does *)
(* not look at it; the caller compares it with state.updateRequestId when  *)
(* the response arrives, and applies the response only if they agree.      *)

Store == [markerSets |-> markerSets,
          pendingSetUpdates |-> pendingSetUpdates,
          pendingTileUpdates |-> pendingTileUpdates,
          chat |-> chat]

\* The store after the three commits of an update.
Commits(st, u) ==
    LET sets == AddMarkerSetUpdates([markerSets |-> st.markerSets,
                                     pendingSetUpdates |-> st.pendingSetUpdates],
                                    u.markerSets)
    IN  [markerSets |-> sets.markerSets,
         pendingSetUpdates |-> sets.pendingSetUpdates,
         pendingTileUpdates |-> AddTileUpdates(st.pendingTileUpdates, u.tiles),
         chat |-> AddChat(st.chat, u.chat)]

\* The response to the request with the given id: a marker update, a tile,
\* a chat message and a player, each named after the request.
UpdatesOf(requestId) ==
    <<Component(<<"marker", "updated">>, ToString(requestId), "s1", MaxTime, "A"),
      Raw([type |-> "tile", name |-> ToString(requestId), timestamp |-> MaxTime]),
      Raw([type |-> "chat", message |-> ToString(requestId),
           timestamp |-> MaxTime, source |-> "player"])>>

PlayersOf(requestId) ==
    <<[account |-> Some(ToString(requestId)), health |-> Some(1),
       world |-> Some("world")]>>

\* state.updateRequestId++
IncrementRequestId(requestId) == requestId + 1

INCREMENT_REQUEST_ID ==
    /\ updateRequestId < MaxRequests
    /\ updateRequestId' = IncrementRequestId(updateRequestId)
    /\ UNCHANGED <<inflight, superseded, uiVars, rendererVars, playerVars, storeVars, updateTimestamp,
                   worldVars, pollVars, raised>>

\* The caller takes the next request id and sends the request with it.
SendUpdateRequest ==
    /\ updateRequestId < MaxRequests
    /\ updateRequestId' = IncrementRequestId(updateRequestId)
    /\ inflight' = inflight \cup {updateRequestId'}
    /\ UNCHANGED <<superseded, uiVars, rendererVars, playerVars, storeVars, updateTimestamp,
                   worldVars, pollVars, raised>>

\* A caller that applies whatever arrives: the fault SupersededDiscarded
\* excludes.
IsAnswered(requestId, current) == TRUE

\* The caller's test of a response against state.updateRequestId.
IsCurrent(requestId, current) == requestId = current

\* The response to a request arrives: it is applied as a whole (the three
\* commits of its updates, SYNC_PLAYERS and SET_PLAYERS_ASYNC of its
\* players, SET_UPDATE_TIMESTAMP), or the response is dropped as a whole.
ReceiveUpdate(requestId, timestamp) ==
    /\ requestId \in inflight
    /\ inflight' = inflight \ {requestId}
    /\ IF IsCurrent(requestId, updateRequestId)
       THEN LET u == buildUpdates(UpdatesOf(requestId), updateTimestamp)
                st == Commits(Store, u.updates)
                list == BuildPlayers(PlayersOf(requestId), heap)
                set == SetPlayersAsync(
                          [players |-> SyncPlayers(players, AccountsIn(list)),
                           input |-> list,
                           heap |-> heap + Len(list)])
            IN  /\ markerSets' = st.markerSets
                /\ pendingSetUpdates' = st.pendingSetUpdates
                /\ pendingTileUpdates' = st.pendingTileUpdates
                /\ chat' = st.chat
                /\ replica' = FollowSets(replica, st.markerSets)
                /\ players' = set.players
                /\ heap' = set.heap
                /\ updateTimestamp' = timestamp
       ELSE UNCHANGED <<storeVars, replica, players, heap, updateTimestamp>>
    /\ superseded' = IF requestId = updateRequestId THEN superseded
                     ELSE superseded \cup {requestId}
    /\ UNCHANGED <<updateRequestId, playersInput, followTarget, merged, loads,
                   loaded, worldVars, pollVars, uiVars, raised>>

---------------------------------------------------------------------------
(* The visible elements of the user interface.                             *)

\* The elements a DynmapUIElement names.
UIElements == {"layers", "chat", "players", "maps", "settings"}

\* Set.prototype.add: an element the Set has stays where it is.
AddElement(visible, element) ==
    IF \E i \in 1..Len(visible) : visible[i] = element THEN visible
    ELSE Append(visible, element)

\* Set.prototype.delete
DeleteElement(visible, element) ==
    SelectSeq(visible, LAMBDA other : other # element)

HasElement(visible, element) ==
    \E i \in 1..Len(visible) : visible[i] = element

\* A change to the small screen that leaves the elements visible: the fault
\* SmallScreenOneElement excludes.
KeepOnSmallScreen(visible, wasSmall, small) == visible

\* Lines 1120-1122: what is visible after SET_SMALL_SCREEN.
ClearForSmallScreen(visible, wasSmall, small) ==
    IF ~wasSmall /\ small /\ Len(visible) > 1 THEN <<>> ELSE visible

SET_SMALL_SCREEN(small) ==
    /\ AtSuspension
    /\ visibleElements' = ClearForSmallScreen(visibleElements, smallScreen, small)
    /\ smallScreen' = small
    /\ raised' = "none"
    /\ UNCHANGED <<playerVars, requestVars, rendererVars, storeVars,
                   updateTimestamp, worldVars, pollVars>>

\* Lines 1138-1142: the elements after the element is shown or hidden.
SetVisibility(visible, small, element, shown) ==
    LET cleared == IF shown /\ small THEN <<>> ELSE visible
    IN  IF shown THEN AddElement(cleared, element)
        ELSE DeleteElement(cleared, element)

TOGGLE_UI_ELEMENT_VISIBILITY(element) ==
    /\ AtSuspension
    /\ LET newState == ~HasElement(visibleElements, element)
       IN  visibleElements' =
               SetVisibility(visibleElements, smallScreen, element, newState)
    /\ raised' = "none"
    /\ UNCHANGED <<smallScreen, playerVars, requestVars, rendererVars, storeVars,
                   updateTimestamp, worldVars, pollVars>>

SET_UI_ELEMENT_VISIBILITY(element, state) ==
    /\ AtSuspension
    /\ visibleElements' =
           SetVisibility(visibleElements, smallScreen, element, state)
    /\ raised' = "none"
    /\ UNCHANGED <<smallScreen, playerVars, requestVars, rendererVars, storeVars,
                   updateTimestamp, worldVars, pollVars>>

---------------------------------------------------------------------------
(* Specifications.                                                         *)

\* The renderer's pops.
Pop ==
    /\ AtSuspension
    /\ \/ \E s \in SetIds, n \in 0..MaxPop : POP_MARKER_UPDATES(s, n)
       \/ \E s \in SetIds, n \in 0..MaxPop : POP_AREA_UPDATES(s, n)
       \/ \E s \in SetIds, n \in 0..MaxPop : POP_CIRCLE_UPDATES(s, n)
       \/ \E s \in SetIds, n \in 0..MaxPop : POP_LINE_UPDATES(s, n)
       \/ \E n \in 0..MaxPop : POP_TILE_UPDATES(n)

\* The commits that follow a classified response.
Commit ==
    \/ ADD_MARKER_SET_UPDATES
    \/ ADD_TILE_UPDATES
    \/ ADD_CHAT
    \/ \E t \in Times : SET_UPDATE_TIMESTAMP(t, "idle")

\* The store under polls of well-formed component records, drained by a
\* renderer, with marker fetches in between.
Next ==
    \/ \E sets \in FetchedMarkerSets : SET_MARKER_SETS(sets)
    \/ GetUpdate(SeqsUpTo(ComponentRecords, MaxBatch))
    \/ Commit
    \/ Pop

Spec == Init /\ [][Next]_vars

\* The store under every mutation that touches the marker sets and the
\* queues, map changes included.
NextStore ==
    \/ SET_WORLDS(ConfiguredWorlds)
    \/ \E world \in AddedWorlds : ADD_WORLD(world)
    \/ \E w \in WorldNames, m \in MapNames : SET_CURRENT_MAP(w, m)
    \/ \E sets \in FetchedMarkerSets : SET_MARKER_SETS(sets)
    \/ GetUpdate(SeqsUpTo(StoreRecords, MaxBatch))
    \/ Commit
    \/ Pop

SpecStore == Init /\ [][NextStore]_vars

\* One poll of a session, of any response, and its redelivery.
NextClassify ==
    \/ polls = 0 /\ SET_MARKER_SETS([s1 |-> FetchedS1])
    \/ polls = 0 /\ GetUpdate(Responses)
    \/ UpdateFailed
    \/ ADD_MARKER_SET_UPDATES
    \/ ADD_TILE_UPDATES
    \/ ADD_CHAT
    \/ \E t \in Times, next \in {"idle", "redeliver"} : SET_UPDATE_TIMESTAMP(t, next)
    \/ GetUpdateAgain

SpecClassify == Init /\ [][NextClassify]_vars

\* The accounts a SYNC_PLAYERS may be told to keep.
KeepSets ==
    {{}, {ToString(i) : i \in 1..MaxPlayers} \cup {""},
     {ToString(i) : i \in 3..MergeLimit + 1}}

\* The accounts of the players a user follows.
Followed == {"", ToString(MergeLimit + 1)}

\* The player registry under responses of up to MaxPlayers players.
NextPlayers ==
    \/ \E list \in PlayerResponses : SetPlayers(list)
    \/ SET_PLAYERS_ASYNC
    \/ \E keep \in KeepSets : SYNC_PLAYERS(keep)
    \/ \E a \in DOMAIN players \cap Followed : SET_FOLLOW_TARGET(players[a])
    \/ CLEAR_FOLLOW_TARGET

SpecPlayers == Init /\ [][NextPlayers]_vars

\* The players of one response: the caller invokes SET_PLAYERS_ASYNC again
\* in a later tick for as long as snapshots remain.
NextDrain ==
    \/ loads = 0 /\ \E list \in PlayerResponses : SetPlayers(list)
    \/ SET_PLAYERS_ASYNC
    \/ \E keep \in KeepSets : SYNC_PLAYERS(keep)

\* The registry pruned with the accounts of the Set being merged, before
\* its merge or at any other time, and with other keep sets.
NextSweep ==
    \/ \E list \in PlayerResponses : SetPlayers(list)
    \/ SET_PLAYERS_ASYNC
    \/ loaded # NoSnapshot /\ SYNC_PLAYERS(AccountsIn(loaded.input))
    \/ \E keep \in KeepSets : SYNC_PLAYERS(keep)

SpecSweep == Init /\ [][NextSweep]_vars

\* The user interface under any sequence of its three mutations.
NextUi ==
    \/ \E small \in BOOLEAN : SET_SMALL_SCREEN(small)
    \/ \E element \in UIElements : TOGGLE_UI_ELEMENT_VISIBILITY(element)
    \/ \E element \in UIElements, state \in BOOLEAN :
          SET_UI_ELEMENT_VISIBILITY(element, state)

SpecUi == Init /\ [][NextUi]_vars

\* SET_PLAYERS_ASYNC can be taken: a Set was handed over and holds snapshots,
\* or has not been merged yet. Each call appends to loaded.calls, so this is
\* ENABLED <<SET_PLAYERS_ASYNC>>_vars.
CanMerge == loaded # NoSnapshot /\ (playersInput # <<>> \/ loaded.calls = <<>>)

\* The caller calls SET_PLAYERS_ASYNC again while snapshots remain:
\* WF_vars(SET_PLAYERS_ASYNC), with its enabling condition written out.
SpecDrain ==
    /\ Init
    /\ [][NextDrain]_vars
    /\ ([]<>(~CanMerge) \/ []<><<SET_PLAYERS_ASYNC>>_vars)

\* Updates of every category and tiles, for the renderer to pop.
PopRecords ==
    { Component(<<"marker", "updated">>, "m1", "s1", 1, "B"),
      Component(<<"marker", "updated">>, "m2", "s1", 1, "C"),
      Raw([type |-> "tile", name |-> "t2", timestamp |-> 1]),
      Component(<<"area", "updated">>, "a1", "s1", 1, "B"),
      Component(<<"circle", "updated">>, "c1", "s1", 1, "B"),
      Component(<<"line", "updated">>, "l1", "s1", 1, "B"),
      Raw([type |-> "tile", name |-> "t1", timestamp |-> 1]) }

\* The renderer pops while updates are committed and players are merged.
NextPop ==
    \/ polls = 0 /\ SET_MARKER_SETS([s1 |-> FetchedS1])
    \/ GetUpdate(SeqsUpTo(PopRecords, MaxBatch))
    \/ Commit
    \/ loads = 0 /\ SetPlayers(RawPlayers(MergeLimit + 1, 0, 0))
    \/ SET_PLAYERS_ASYNC
    \/ Pop

SpecPop == Init /\ [][NextPop]_vars

\* Requests superseded while in flight, answered in any order.
NextRequests ==
    \/ markerSets = EmptyMap /\ SET_MARKER_SETS([s1 |-> FetchedS1])
    \/ SendUpdateRequest
    \/ INCREMENT_REQUEST_ID
    \/ \E requestId \in 1..MaxRequests, t \in Times : ReceiveUpdate(requestId, t)
    \/ Pop

SpecRequests == Init /\ [][NextRequests]_vars

---------------------------------------------------------------------------
(* Properties.  While a response is being committed, `before` is the store *)
(* its commits found, `response` the raw batch, `updates`, `dropped` and   *)
(* `accepted` what buildUpdates made of it under `updateTimestamp`.        *)

Committed == pc = "chat"

RemoveAt(list, i) == SubSeq(list, 1, i - 1) \o SubSeq(list, i + 1, Len(list))

\* The classifier's working state before and after record i of the response.
Upto(i) == ClassifyPrefix(response, i, updateTimestamp)

\* Record i of the response changed nothing but the counter of `reason`.
CountedOnce(i, reason) ==
    /\ Upto(i).updates = Upto(i - 1).updates
    /\ Upto(i).accepted = Upto(i - 1).accepted
    /\ Upto(i).dropped = [Upto(i - 1).dropped EXCEPT ![reason] = @ + 1]

\* The response without record i leaves the same store behind, and the
\* same counters but for one count of `reason`.
DroppedAs(i, reason) ==
    LET rest == buildUpdates(RemoveAt(response, i), updateTimestamp)
    IN  /\ CountedOnce(i, reason)
        /\ Store = Commits(before, rest.updates)
        /\ dropped = [rest.dropped EXCEPT ![reason] = @ + 1]
        /\ accepted = rest.accepted

----
\* C1: the ids with a pending-queue entry are the ids of the marker sets:
\* a deletion removes the set with its queues, no queue outlives its set.
QueuesMatchSets == DOMAIN pendingSetUpdates = DOMAIN markerSets

\* An update has deleted a set that had marker updates pending, and the
\* store still holds another set.
SetDeletedWithQueues ==
    /\ pc = "sets"
    /\ markerSets # EmptyMap
    /\ \E s \in DOMAIN before.markerSets :
          /\ before.pendingSetUpdates[s].markerUpdates # <<>>
          /\ s \notin DOMAIN markerSets
          /\ s \notin DOMAIN pendingSetUpdates

----
WatermarkedTypes == {"component", "chat", "playerjoin", "playerquit", "tile"}

IsStale(entry) ==
    /\ entry.type \in {Some(t) : t \in WatermarkedTypes}
    /\ FieldLess(entry.timestamp, updateTimestamp)

\* A chat, join, quit or tile record without its required field, or with a
\* timestamp of 0.
LacksRequired(entry) ==
    \/ entry.type = Some("chat")
          /\ (~Truthy(entry.message, "") \/ ~Truthy(entry.timestamp, 0))
    \/ entry.type \in {Some("playerjoin"), Some("playerquit")}
          /\ (~Truthy(entry.account, "") \/ ~Truthy(entry.timestamp, 0))
    \/ entry.type = Some("tile")
          /\ (~Truthy(entry.name, "") \/ ~Truthy(entry.timestamp, 0))

\* C2 as stated: every record with a timestamp below the watermark leaves
\* the model and the queues as the batch without it would, and is counted
\* once, as stale.
StaleCountedStale ==
    Committed =>
        \A i \in 1..Len(response) :
            IsStale(response[i]) => DroppedAs(i, "stale")

\* C2 amended: every record with a timestamp below the watermark leaves the
\* model and the queues as the batch without it would, and is counted once:
\* as incomplete if it is a chat, join, quit or tile record that lacks its
\* required field or has timestamp 0, as stale otherwise.
StaleCountedOnce ==
    Committed =>
        \A i \in 1..Len(response) :
            IsStale(response[i]) =>
                DroppedAs(i, IF LacksRequired(response[i]) THEN "incomplete"
                             ELSE "stale")

\* A stale component record was committed in a batch whose other record
\* changed the store.
StaleAmongAccepted ==
    /\ Committed
    /\ Store # before
    /\ \E i \in 1..Len(response) :
          IsStale(response[i]) /\ response[i].type = Some("component")

----
\* The watermark is past every timestamp of the response.
PastBatch ==
    \A i \in 1..Len(response) :
        response[i].timestamp = undefined
            \/ response[i].timestamp[1] < updateTimestamp

\* The response committed is a batch delivered again after it was applied
\* and the watermark advanced past it.
Redelivered == Committed /\ redelivery # NotRedelivered /\ PastBatch

\* C3 as stated: once a batch has been classified and applied (none of its
\* records dropped) and the watermark advanced past it, classifying and
\* applying the batch again drops every record as stale and leaves marker
\* sets, entity maps, pending queues, tile queue and chat list as they were.
RedeliveryAllStale ==
    (Redelivered /\ redelivery = Some(NoDrops)) =>
        /\ Store = before
        /\ dropped = [NoDrops EXCEPT !["stale"] = Len(response)]

\* The reason a timestamped record is dropped for under a watermark past it.
RedeliveryReason(entry) ==
    IF entry.type \notin {Some(t) : t \in WatermarkedTypes} THEN "unknownType"
    ELSE IF LacksRequired(entry) THEN "incomplete"
    ELSE "stale"

\* What does hold of a redelivery: every record that carries a timestamp
\* is dropped (as stale, unless it is of unknown type or incomplete), and
\* when every component record of the batch carries a timestamp nothing is
\* accepted and the store is left as it was.
StaleOnRedelivery ==
    Redelivered =>
        /\ \A i \in 1..Len(response) :
              response[i].timestamp # undefined =>
                  DroppedAs(i, RedeliveryReason(response[i]))
        /\ (\A i \in 1..Len(response) :
               response[i].type = Some("component") =>
                   response[i].timestamp # undefined)
           => /\ updates = EmptyUpdates
              /\ accepted = 0
              /\ Store = before

----
\* C4 as stated: buildUpdates returns normally for every batch; a malformed
\* record is only ever counted, classification never throws.
NeverThrows == pc # "failed"

----
Classified == pc = "classified"

\* The bucket of set s in the classifier's working state u.
BucketOf(u, s) ==
    IF s \in DOMAIN u.updates.markerSets.get
    THEN u.updates.markerSets.get[s] ELSE NewBucket

\* Record i is a set-level record whose payload or removed flag was written.
WroteSetLevel(i) ==
    LET entry == response[i]
    IN  /\ entry.type = Some("component")
        /\ entry.msg # undefined
        /\ StartsWith(entry.msg[1], "set")
        /\ entry.id # undefined
        /\ entry.id[1] \in DOMAIN Upto(i).updates.markerSets.get
        /\ Upto(i).accepted = Upto(i - 1).accepted + 1
        /\ LET bucket == BucketOf(Upto(i), entry.id[1])
           IN  /\ bucket.removed = EndsWith(entry.msg[1], "deleted")
               /\ (bucket.payload = undefined) = bucket.removed

\* Record i added one entry to a category list, to the tiles or to the chat.
AddedOne(i) ==
    \/ Len(Upto(i).updates.tiles) = Len(Upto(i - 1).updates.tiles) + 1
    \/ Len(Upto(i).updates.chat) = Len(Upto(i - 1).updates.chat) + 1
    \/ \E s \in DOMAIN Upto(i).updates.markerSets.get, c \in Categories :
          Len(BucketOf(Upto(i), s)[c]) = Len(BucketOf(Upto(i - 1), s)[c]) + 1

Contributed(i) == WroteSetLevel(i) \/ AddedOne(i)

CountedUnder(i) ==
    {r \in DropReasons : Upto(i).dropped = [Upto(i - 1).dropped EXCEPT ![r] = @ + 1]}

\* C5 as stated: every record of a batch either contributes a delta (a
\* set-level payload or removed flag, one category entry, one tile, one
\* chat event) and no counter moves, or contributes nothing and exactly
\* one drop counter goes up by one.
ExactlyOneOutcome ==
    Classified =>
        \A i \in 1..Len(response) :
            \/ Contributed(i) /\ Upto(i).dropped = Upto(i - 1).dropped
            \/ /\ ~Contributed(i)
               /\ Upto(i).updates = Upto(i - 1).updates
               /\ Cardinality(CountedUnder(i)) = 1

----
(* The component records of the response that the claims call accepted,    *)
(* read off the raw batch.                                                 *)

Reconciled == pc = "sets"

IsAccepted(entry) ==
    /\ entry.type = Some("component")
    /\ ~FieldLess(entry.timestamp, updateTimestamp)
    /\ Truthy(entry.id, "")
    /\ entry.msg # undefined
    /\ Truthy(IF StartsWith(entry.msg[1], "set") THEN entry.id ELSE entry.set, "")
    /\ entry.ctype = Some("markers")

\* The accepted set-level records for set s, in input order.
SetRecords(s) ==
    SelectSeq(response, LAMBDA e : /\ IsAccepted(e)
                                   /\ StartsWith(e.msg[1], "set")
                                   /\ e.id = Some(s))

CategoryPrefix == [markerUpdates |-> "marker", areaUpdates |-> "area",
                   circleUpdates |-> "circle", lineUpdates |-> "line"]

CategoryMap == [markerUpdates |-> "markers", areaUpdates |-> "areas",
                circleUpdates |-> "circles", lineUpdates |-> "lines"]

\* The accepted entity records for (s, c), in input order.
EntityRecords(s, c) ==
    SelectSeq(response, LAMBDA e : /\ IsAccepted(e)
                                   /\ StartsWith(e.msg[1], CategoryPrefix[c])
                                   /\ e.set = Some(s))

IsDeletion(entry) == EndsWith(entry.msg[1], "deleted")

Decoded(c, entry) ==
    CASE c = "markerUpdates" -> buildMarker(entry)
      [] c = "areaUpdates"   -> buildArea(entry)
      [] c = "circleUpdates" -> buildCircle(entry)
      [] c = "lineUpdates"   -> buildLine(entry)

Last(S) == CHOOSE k \in S : \A j \in S : j <= k

\* The map and the queue of (s, c) the response was committed to.
MapBefore(s, c) ==
    IF s \in DOMAIN before.markerSets
    THEN before.markerSets[s][CategoryMap[c]] ELSE EmptyMap

QueueBefore(s, c) ==
    IF s \in DOMAIN before.pendingSetUpdates
    THEN before.pendingSetUpdates[s][c] ELSE <<>>

\* In the map of (s, c) the last record for an id decides: gone if it is a
\* deletion, present with the record's payload otherwise; every other id
\* is as before.
MapFollows(s, c) ==
    LET recs == EntityRecords(s, c)
        map  == markerSets[s][CategoryMap[c]]
        old  == MapBefore(s, c)
        ids  == DOMAIN map \cup DOMAIN old
                    \cup {recs[k].id[1] : k \in 1..Len(recs)}
    IN  \A id \in ids :
            LET at == {k \in 1..Len(recs) : recs[k].id = Some(id)}
            IN  IF at = {}
                THEN /\ (id \in DOMAIN map) = (id \in DOMAIN old)
                     /\ id \in DOMAIN map => map[id] = old[id]
                ELSE IF IsDeletion(recs[Last(at)])
                THEN id \notin DOMAIN map
                ELSE /\ id \in DOMAIN map
                     /\ map[id] = Decoded(c, recs[Last(at)])

----
\* C6 as stated: when the batch holds an accepted set-level deletion for a
\* set s of the model, in any position, then after reconciliation none of
\* the entities s held remains, s's previous queues are gone, and none of
\* the batch's entity updates for s has been applied.
DeletionDiscardsSet ==
    Reconciled =>
        \A s \in DOMAIN before.markerSets :
            (\E k \in 1..Len(SetRecords(s)) : IsDeletion(SetRecords(s)[k])) =>
                \/ s \notin DOMAIN markerSets /\ s \notin DOMAIN pendingSetUpdates
                \/ /\ s \in DOMAIN markerSets
                   /\ s \in DOMAIN pendingSetUpdates
                   /\ \A c \in Categories :
                         LET recs == EntityRecords(s, c)
                             kept == DOMAIN markerSets[s][CategoryMap[c]]
                                         \cap DOMAIN MapBefore(s, c)
                         IN  /\ \A id \in kept :
                                   \E k \in 1..Len(recs) :
                                       recs[k].id = Some(id) /\ ~IsDeletion(recs[k])
                             /\ Len(pendingSetUpdates[s][c]) <= Len(recs)

----
WithoutBucket(ms, s) ==
    [keys |-> SelectSeq(ms.keys, LAMBDA k : k # s), get |-> Without(ms.get, s)]

\* The bucket of an absent set that brings no payload.
Unfounded(s) ==
    /\ s \in DOMAIN updates.markerSets.get
    /\ s \notin DOMAIN before.markerSets
    /\ updates.markerSets.get[s].payload = undefined

\* C7: a bucket for a set that is absent from the model, without set-level
\* payload, creates neither the set nor a queue entry for it, and the
\* model and the queues are what the update without that bucket makes.
SkippedWithoutPayload ==
    Reconciled =>
        \A s \in SetIds :
            Unfounded(s) =>
                /\ s \notin DOMAIN markerSets
                /\ s \notin DOMAIN pendingSetUpdates
                /\ [markerSets |-> markerSets,
                    pendingSetUpdates |-> pendingSetUpdates]
                   = AddMarkerSetUpdates(
                         [markerSets |-> before.markerSets,
                          pendingSetUpdates |-> before.pendingSetUpdates],
                         WithoutBucket(updates.markerSets, s))

\* A bucket of marker updates for an absent set was skipped while the same
\* update changed another set.
SkippedAmongApplied ==
    /\ Reconciled
    /\ markerSets # before.markerSets
    /\ \E s \in SetIds :
          /\ Unfounded(s)
          /\ updates.markerSets.get[s].markerUpdates # <<>>
          /\ s \notin DOMAIN markerSets

----
ScenarioA == Raw([type |-> "component", msg |-> <<"set", "updated">>, id |-> "s1"])

\* Record i of the response is Scenario A's, s1 is not in the model and no
\* other record of the response is an accepted set-level update of s1.
ScenarioAAt(i) ==
    /\ response[i] = ScenarioA
    /\ "s1" \notin DOMAIN before.markerSets
    /\ \A k \in 1..Len(SetRecords("s1")) : IsDeletion(SetRecords("s1")[k])

\* C8: the record {type:'component', msg:'setupdated', id:'s1'}, arriving
\* while s1 is not in the model, is dropped, and after classification and
\* reconciliation neither markerSets nor pendingSetUpdates holds s1.
ScenarioADropped ==
    Committed =>
        \A i \in 1..Len(response) :
            ScenarioAAt(i) =>
                /\ \E r \in DropReasons : DroppedAs(i, r)
                /\ "s1" \notin DOMAIN markerSets
                /\ "s1" \notin DOMAIN pendingSetUpdates

\* Scenario A's record was committed next to another record, and s1 is
\* still not there.
ScenarioACommitted ==
    /\ Committed
    /\ Len(response) > 1
    /\ \E i \in 1..Len(response) : ScenarioAAt(i)
    /\ dropped["unknownCType"] = 1
    /\ "s1" \notin DOMAIN markerSets

----
\* The last accepted set-level record of the response for s is a deletion.
RemovedByBatch(s) ==
    LET recs == SetRecords(s)
    IN  recs # <<>> /\ IsDeletion(recs[Len(recs)])

\* The queue of (s, c) has grown by one entry for each accepted entity
\* record, with the record's id and removed flag.
GrowsByRecords(s, c) ==
    LET recs  == EntityRecords(s, c)
        queue == pendingSetUpdates[s][c]
        n     == Len(QueueBefore(s, c))
    IN  /\ Len(queue) = n + Len(recs)
        /\ \A k \in 1..Len(recs) :
              /\ queue[n + k].id = recs[k].id[1]
              /\ queue[n + k].removed = IsDeletion(recs[k])

\* Every (set, category) of the model after the commit has a queue as long
\* as before plus the accepted entity records addressed to it.
OnlyAddressedGrow ==
    \A s \in DOMAIN pendingSetUpdates, c \in Categories :
        Len(pendingSetUpdates[s][c])
            = Len(QueueBefore(s, c)) + Len(EntityRecords(s, c))

\* C9 as stated: for the accepted entity updates addressed to a set that
\* exists, the set's category map is updated and the queue of that (set,
\* category) grows by one entry per update, with the same id and removed
\* flag; no other queue changes length.
DualWriteAlways ==
    Reconciled =>
        /\ \A s \in DOMAIN before.markerSets, c \in Categories :
              EntityRecords(s, c) # <<>> =>
                  /\ s \in DOMAIN markerSets
                  /\ s \in DOMAIN pendingSetUpdates
                  /\ MapFollows(s, c)
                  /\ GrowsByRecords(s, c)
        /\ OnlyAddressedGrow

\* C9 amended: for the accepted entity updates addressed to a set that
\* exists and that the batch does not remove, the set's category map is
\* updated and the queue of that (set, category) grows by one entry per
\* update, with the same id and removed flag; no other queue changes
\* length.
DualWrite ==
    Reconciled =>
        /\ \A s \in DOMAIN before.markerSets, c \in Categories :
              (EntityRecords(s, c) # <<>> /\ ~RemovedByBatch(s)) =>
                  /\ s \in DOMAIN markerSets
                  /\ s \in DOMAIN pendingSetUpdates
                  /\ MapFollows(s, c)
                  /\ GrowsByRecords(s, c)
        /\ OnlyAddressedGrow

\* A marker of a set with updates pending was replaced and an area of the
\* same set removed by one batch: both maps and both queues followed.
DualWritten ==
    /\ Reconciled
    /\ "s1" \in DOMAIN before.markerSets
    /\ "s1" \in DOMAIN markerSets
    /\ before.pendingSetUpdates["s1"].markerUpdates # <<>>
    /\ Len(EntityRecords("s1", "markerUpdates")) = 1
    /\ Len(EntityRecords("s1", "areaUpdates")) = 1
    /\ markerSets["s1"].markers # before.markerSets["s1"].markers
    /\ markerSets["s1"].areas # before.markerSets["s1"].areas
    /\ Len(pendingSetUpdates["s1"].areaUpdates)
           = Len(before.pendingSetUpdates["s1"].areaUpdates) + 1

----
\* The update an accepted entity record stands for in the queues.
UpdateOf(c, entry) == EntityUpdate(entry, Decoded(c, entry))

\* C10: within each (set, category) arrival order is kept: for each id the
\* last record of the batch decides presence and payload in the map, and
\* the queue is the entries already pending followed by the batch's
\* updates in input order.
ArrivalOrder ==
    Reconciled =>
        \A s \in DOMAIN markerSets, c \in Categories :
            LET recs == EntityRecords(s, c)
            IN  /\ MapFollows(s, c)
                /\ pendingSetUpdates[s][c]
                       = QueueBefore(s, c)
                           \o [k \in 1..Len(recs) |-> UpdateOf(c, recs[k])]

\* Two records for the same marker arrived in one batch, an upsert and a
\* deletion, while updates for the set were already pending.
OrderedPair ==
    /\ Reconciled
    /\ \E s \in DOMAIN markerSets :
          LET recs == EntityRecords(s, "markerUpdates")
          IN  /\ QueueBefore(s, "markerUpdates") # <<>>
              /\ Len(recs) = 2
              /\ recs[1].id = recs[2].id
              /\ IsDeletion(recs[1]) # IsDeletion(recs[2])

---------------------------------------------------------------------------
(* The player registry.  After SET_PLAYERS_ASYNC or SYNC_PLAYERS, `merged` *)
(* is what the mutation found; `loaded` is the registry and the Set as the *)
(* caller built the Set, while its snapshots are being merged.             *)

Merged == merged # NoSnapshot /\ merged.by = "SET_PLAYERS_ASYNC"

Min(a, b) == IF a < b THEN a ELSE b

\* The fields a snapshot carries into the registry.
Values(player) ==
    [health |-> player.health, hidden |-> player.hidden,
     world |-> player.location.world]

AccountsOf(list) == {list[i].account : i \in 1..Len(list)}

\* The last snapshot of the list for an account.
LastOf(list, account) ==
    list[CHOOSE i \in 1..Len(list) :
            /\ list[i].account = account
            /\ \A j \in i + 1..Len(list) : list[j].account # account]

\* The registry `to` is the registry `from` with the snapshots of the list
\* set and nothing else changed.
SetsExactly(from, list, to) ==
    /\ DOMAIN to = DOMAIN from \cup AccountsOf(list)
    /\ \A a \in DOMAIN to :
          IF a \in AccountsOf(list)
          THEN to[a].account = a /\ Values(to[a]) = Values(LastOf(list, a))
          ELSE to[a] = from[a]

\* C11: one call of SET_PLAYERS_ASYNC on a Set of n snapshots sets the
\* first min(n, 10) of them and no more: the Set is left with the other
\* max(0, n - 10) snapshots, and the registry is the one the call found
\* with exactly the processed snapshots set.
MergeUpToLimit ==
    Merged =>
        LET n == Len(merged.input)
            k == Min(n, 10)
        IN  /\ playersInput = SubSeq(merged.input, k + 1, n)
            /\ Len(playersInput) = IF n > 10 THEN n - 10 ELSE 0
            /\ SetsExactly(merged.players, SubSeq(merged.input, 1, k), players)

\* A call that left snapshots behind whose accounts the registry lacks.
MergedPartOfSet ==
    /\ Merged
    /\ Len(merged.input) = MaxPlayers
    /\ Len(playersInput) = MaxPlayers - 10
    /\ AccountsOf(playersInput) \cap DOMAIN players = {}
    /\ players # EmptyMap

\* The Set the caller built has been merged by uninterrupted calls of
\* SET_PLAYERS_ASYNC, down to the empty remainder.
Drained ==
    /\ Merged
    /\ loaded # NoSnapshot
    /\ ~loaded.synced
    /\ playersInput = <<>>

\* C12 as stated: after the calls the registry has an entry for the account
\* of every snapshot, with the values of that snapshot; 25 snapshots take
\* calls of 10, 10 and 5 and leave 25 entries in a registry that was empty.
MergeAllEverySnapshot ==
    Drained =>
        /\ \A i \in 1..Len(loaded.input) :
              LET player == loaded.input[i]
              IN  /\ player.account \in DOMAIN players
                  /\ Values(players[player.account]) = Values(player)
        /\ Len(loaded.input) = 25 =>
              /\ loaded.calls = <<10, 10, 5>>
              /\ loaded.players = EmptyMap => Cardinality(DOMAIN players) = 25

\* C12, amended: after the calls the registry has an entry for every account
\* among the snapshots, with the values of the last snapshot of that
\* account, and its other entries are as they were; 25 snapshots take calls
\* of 10, 10 and 5, and a registry that was empty ends with one entry for
\* each distinct account, 25 when no two snapshots share an account.
MergeAllLastSnapshot ==
    Drained =>
        /\ SetsExactly(loaded.players, loaded.input, players)
        /\ Len(loaded.input) = 25 =>
              /\ loaded.calls = <<10, 10, 5>>
              /\ loaded.players = EmptyMap =>
                    Cardinality(DOMAIN players)
                        = Cardinality(AccountsOf(loaded.input))
              /\ (loaded.players = EmptyMap
                    /\ \A i, j \in 1..25 :
                          loaded.input[i].account = loaded.input[j].account
                              => i = j)
                    => Cardinality(DOMAIN players) = 25

\* 25 snapshots merged in three calls into a registry that had entries for
\* some of their accounts, with other values.
MergedInThreeCalls ==
    /\ Drained
    /\ Len(loaded.input) = 25
    /\ Len(loaded.calls) = 3
    /\ \E a \in DOMAIN loaded.players \cap AccountsOf(loaded.input) :
          Values(loaded.players[a]) # Values(players[a])

Synced == merged # NoSnapshot /\ merged.by = "SYNC_PLAYERS"

\* C13: SYNC_PLAYERS(keep) leaves the registry with the accounts it had that
\* are in keep, each entry the same object with the same fields, and
\* changes nothing else: not the Set being merged, not the follow target.
SyncKeepsExactly ==
    Synced =>
        /\ DOMAIN players = DOMAIN merged.players \cap merged.keep
        /\ \A a \in DOMAIN players : players[a] = merged.players[a]
        /\ playersInput = merged.input
        /\ followTarget = merged.followTarget
        /\ heap = merged.heap

\* A SYNC_PLAYERS that removed some entries and kept others, while a Set
\* was being merged and a player was followed.
SyncedSome ==
    /\ Synced
    /\ players # EmptyMap
    /\ DOMAIN players # DOMAIN merged.players
    /\ playersInput # <<>>
    /\ followTarget # undefined

\* The snapshots the last SET_PLAYERS_ASYNC processed.
Processed == SubSeq(merged.input, 1, Len(merged.input) - Len(playersInput))

\* C14: an entry the call finds for the account of a snapshot stays the
\* same object, with the same location object, and takes the values of
\* the snapshot, so that a follow target taken before the call is the
\* registry's entry for the account after it; objects are allocated only
\* for the accounts the registry did not have.
EntryKeptInPlace ==
    Merged =>
        /\ \A a \in AccountsOf(Processed) :
              IF a \in DOMAIN merged.players
              THEN /\ players[a].ref = merged.players[a].ref
                   /\ players[a].location.ref = merged.players[a].location.ref
                   /\ Values(players[a]) = Values(LastOf(Processed, a))
                   /\ merged.followTarget = Some(merged.players[a].ref)
                        => followTarget = Some(players[a].ref)
              ELSE players[a].ref > merged.heap
        /\ heap = merged.heap
                    + Cardinality(AccountsOf(Processed) \ DOMAIN merged.players)

\* A call that overwrote the values of the followed player and inserted
\* another one.
FollowedOverwritten ==
    /\ Merged
    /\ \E a \in AccountsOf(Processed) \cap DOMAIN merged.players :
          /\ followTarget = Some(players[a].ref)
          /\ Values(players[a]) # Values(merged.players[a])
    /\ AccountsOf(Processed) \ DOMAIN merged.players # {}

---------------------------------------------------------------------------
(* The chat list of a classified response.                                 *)

\* A chat record with message and timestamp from a player or the web, or a
\* join or quit record with account and timestamp, not below the watermark.
ChatAccepted(entry) ==
    /\ ~IsStale(entry)
    /\ \/ /\ entry.type = Some("chat")
          /\ Truthy(entry.message, "")
          /\ Truthy(entry.timestamp, 0)
          /\ entry.source \in {Some("player"), Some("web")}
       \/ /\ entry.type \in {Some("playerjoin"), Some("playerquit")}
          /\ Truthy(entry.account, "")
          /\ Truthy(entry.timestamp, 0)

\* The event of the chat list is the one made of the record.
EventOf(event, entry) ==
    /\ entry.type = Some(IF event.type = "playerleave" THEN "playerquit"
                         ELSE event.type)
    /\ Some(event.timestamp) = entry.timestamp
    /\ event.type = "chat" =>
          Some(event.message) = entry.message /\ event.source = entry.source
    /\ event.type # "chat" => event.playerAccount = entry.account

\* C15: the chat list buildUpdates returns holds exactly the accepted chat,
\* join and quit records of the batch, each once, newest first, and events
\* of equal timestamps in the order of the batch.
ChatNewestFirstStable ==
    Classified =>
        LET from == {i \in 1..Len(response) : ChatAccepted(response[i])}
            to == 1..Len(updates.chat)
        IN  \E p \in [to -> from] :
              /\ \A i \in from : \E k \in to : p[k] = i
              /\ \A k, l \in to : p[k] = p[l] => k = l
              /\ \A k \in to : EventOf(updates.chat[k], response[p[k]])
              /\ \A k, l \in to :
                    k < l =>
                       \/ updates.chat[k].timestamp > updates.chat[l].timestamp
                       \/ /\ updates.chat[k].timestamp = updates.chat[l].timestamp
                          /\ p[k] < p[l]

\* Two different events of one timestamp were accepted.
ChatSameTimestamp ==
    /\ Classified
    /\ Len(updates.chat) = 2
    /\ updates.chat[1].timestamp = updates.chat[2].timestamp
    /\ updates.chat[1] # updates.chat[2]

---------------------------------------------------------------------------
(* The frame of the POP_* mutations.                                       *)

\* Of the pending queues, at most one list of one set differs.
OneQueueOnly ==
    /\ DOMAIN pendingSetUpdates' = DOMAIN pendingSetUpdates
    /\ \/ UNCHANGED pendingSetUpdates
       \/ /\ UNCHANGED pendingTileUpdates
          /\ \E s \in DOMAIN pendingSetUpdates, c \in Categories :
                pendingSetUpdates' =
                    [pendingSetUpdates EXCEPT ![s][c] = pendingSetUpdates'[s][c]]

\* C16: a POP_* mutation leaves the marker sets, the player registry and
\* the watermark as they are, and changes at most the list it is called on.
PopsLeaveModel ==
    [][Pop => /\ UNCHANGED <<markerSets, players, updateTimestamp, chat>>
              /\ OneQueueOnly]_vars

\* The update of marker m1 has been committed and popped, while the set,
\* its pending area updates and the players are still there.
PoppedBesideModel ==
    /\ AtSuspension
    /\ players # EmptyMap
    /\ "s1" \in DOMAIN markerSets
    /\ "m1" \in DOMAIN markerSets["s1"].markers
    /\ markerSets["s1"].markers["m1"].label = "B"
    /\ pendingSetUpdates["s1"].markerUpdates = <<>>
    /\ pendingSetUpdates["s1"].areaUpdates # <<>>

---------------------------------------------------------------------------
(* The watermark of the first poll.                                        *)

\* The response being classified is the first of the session: no
\* SET_UPDATE_TIMESTAMP has been committed yet.
FirstPoll == pc = "classified" /\ polls = 1 /\ redelivery = NotRedelivered

\* C17: under a watermark of zero no record is counted stale, and none is
\* on the first poll of a session, when the watermark is the one the store
\* was constructed with.
FirstPollNothingStale ==
    /\ (Classified /\ updateTimestamp = 0) => dropped["stale"] = 0
    /\ FirstPoll => dropped["stale"] = 0

---------------------------------------------------------------------------
(* Superseded requests.                                                    *)

\* Something of the response to the request is in the store.
Reached(requestId) ==
    LET name == ToString(requestId)
    IN  \/ \E s \in DOMAIN markerSets :
              \/ name \in DOMAIN markerSets[s].markers
              \/ \E i \in 1..Len(pendingSetUpdates[s].markerUpdates) :
                    pendingSetUpdates[s].markerUpdates[i].id = name
        \/ \E i \in 1..Len(pendingTileUpdates) : pendingTileUpdates[i].name = name
        \/ \E i \in 1..Len(chat) : chat[i].message = name
        \/ name \in DOMAIN players
        \/ \E i \in 1..Len(playersInput) : playersInput[i].account = name

\* C18: nothing of a response whose request id was no longer the current
\* updateRequestId when it arrived is in the marker sets, the queues, the
\* chat list or the player registry.
SupersededDiscarded == \A requestId \in superseded : ~Reached(requestId)

\* A response arrived superseded after a later one had been applied.
LateResponseDiscarded ==
    \E old \in superseded, new \in 1..MaxRequests :
        /\ old < new
        /\ new \notin inflight
        /\ Reached(new)

---------------------------------------------------------------------------
(* The discipline of the pending queues.                                   *)

IsPrefix(old, new) == Len(old) <= Len(new) /\ SubSeq(new, 1, Len(old)) = old

\* `new` is `old` without its first min(amount, Len(old)) entries.
PopsOldest(old, amount, new) ==
    new = SubSeq(old, Min(amount, Len(old)) + 1, Len(old))

PopsOldestOf(category, s, amount) ==
    s \in DOMAIN pendingSetUpdates =>
        PopsOldest(pendingSetUpdates[s][category], amount,
                   pendingSetUpdates'[s][category])

---------------------------------------------------------------------------
(* Acceptance of chat, join and quit records.                              *)

ChatTypes == {Some("chat"), Some("playerjoin"), Some("playerquit")}

\* Record i of the response added its event to the chat list and moved no
\* drop counter.
PushedChat(i) ==
    /\ Len(Upto(i).updates.chat) = Len(Upto(i - 1).updates.chat) + 1
    /\ SubSeq(Upto(i).updates.chat, 1, Len(Upto(i - 1).updates.chat))
          = Upto(i - 1).updates.chat
    /\ EventOf(Upto(i).updates.chat[Len(Upto(i).updates.chat)], response[i])
    /\ Upto(i).dropped = Upto(i - 1).dropped

\* The first test a chat, join or quit record fails, in the order
\* incomplete, stale, notImplemented.
FirstFailing(entry) ==
    IF ~Truthy(entry.timestamp, 0)
       \/ (entry.type = Some("chat") /\ ~Truthy(entry.message, ""))
       \/ (entry.type # Some("chat") /\ ~Truthy(entry.account, ""))
    THEN "incomplete"
    ELSE IF IsStale(entry) THEN "stale"
    ELSE "notImplemented"

\* C20: a chat record with message and timestamp, not below the watermark,
\* from a player or the web, is accepted, and so is a join or quit record
\* with account and timestamp, not below the watermark, whatever its
\* source; every other chat, join or quit record is counted once, under the
\* first of incomplete, stale, notImplemented that applies.
ChatAcceptance ==
    Classified =>
        \A i \in 1..Len(response) :
            response[i].type \in ChatTypes =>
                IF ChatAccepted(response[i])
                THEN PushedChat(i)
                ELSE CountedOnce(i, FirstFailing(response[i]))

\* A join from a source that is neither a player nor the web was accepted
\* next to a chat message of a player.
JoinOfAnySource ==
    /\ Classified
    /\ \E i \in 1..Len(response) :
          /\ response[i].type = Some("playerjoin")
          /\ response[i].source = Some("plugin")
    /\ Len(updates.chat) = 2
    /\ \E k \in 1..2 : updates.chat[k].type = "playerjoin"
    /\ \E k \in 1..2 : updates.chat[k].type = "chat"

---------------------------------------------------------------------------
(* The tests of the component case.                                        *)

IsSetLevel(entry) == entry.msg # undefined /\ StartsWith(entry.msg[1], "set")

\* The key of the bucket a component record goes to.
BucketKey(entry) == IF IsSetLevel(entry) THEN entry.id ELSE entry.set

\* C21: a component record without id is counted noId whatever its
\* timestamp, set and ctype; one with an id that is entity-level and has no
\* set is counted noSet; one with id and bucket key whose ctype is not
\* 'markers' is counted unknownCType; an accepted record is found in the
\* bucket of its own id if it is set-level and of its set field otherwise.
\* The second and third part are stated for records that are not stale.
ComponentDropOrder ==
    Classified =>
        \A i \in 1..Len(response) :
            LET entry == response[i]
            IN  (entry.type = Some("component") /\ entry.msg # undefined) =>
                   IF ~Truthy(entry.id, "") THEN CountedOnce(i, "noId")
                   ELSE IF IsStale(entry) THEN TRUE
                   ELSE IF ~Truthy(BucketKey(entry), "")
                        THEN CountedOnce(i, "noSet")
                   ELSE IF entry.ctype # Some("markers")
                        THEN CountedOnce(i, "unknownCType")
                   ELSE /\ Upto(i).accepted = Upto(i - 1).accepted + 1
                        /\ BucketKey(entry)[1]
                              \in DOMAIN Upto(i).updates.markerSets.get
                        /\ \A s \in DOMAIN Upto(i).updates.markerSets.get :
                              s # BucketKey(entry)[1] =>
                                 /\ s \in DOMAIN Upto(i - 1).updates.markerSets.get
                                 /\ BucketOf(Upto(i), s) = BucketOf(Upto(i - 1), s)

---------------------------------------------------------------------------
(* Set-level updates of an existing set.                                   *)

ScalarFields == {"label", "hidden", "priority", "minZoom", "maxZoom", "showLabels"}

\* The bucket of the update carries a payload, no removal and no entity
\* updates.
PayloadOnly(bucket) ==
    /\ bucket.payload # undefined
    /\ ~bucket.removed
    /\ \A c \in Categories : bucket[c] = <<>>

---------------------------------------------------------------------------
(* The order of the buckets of an update.                                  *)

Orders(n) ==
    {p \in [1..n -> 1..n] : \A i, j \in 1..n : p[i] = p[j] => i = j}

\* The marker sets and queues the commits of the response found.
SetsBefore ==
    [markerSets |-> before.markerSets,
     pendingSetUpdates |-> before.pendingSetUpdates]

\* Set s2 and its queues are the same in both stores, or absent from both.
SameSet(one, two, s2) ==
    /\ (s2 \in DOMAIN one.markerSets) = (s2 \in DOMAIN two.markerSets)
    /\ (s2 \in DOMAIN one.pendingSetUpdates) = (s2 \in DOMAIN two.pendingSetUpdates)
    /\ s2 \in DOMAIN one.markerSets => one.markerSets[s2] = two.markerSets[s2]
    /\ s2 \in DOMAIN one.pendingSetUpdates =>
          one.pendingSetUpdates[s2] = two.pendingSetUpdates[s2]

\* C23: the buckets of an update, processed in any order of their set ids,
\* leave the marker sets and the pending queues that ADD_MARKER_SET_UPDATES
\* left, and the bucket of one set changes nothing of another set.
CrossSetOrderIrrelevant ==
    Reconciled =>
        LET ms == updates.markerSets
            n == Len(ms.keys)
        IN  /\ \A p \in Orders(n) :
                  AddMarkerSetUpdates(SetsBefore,
                        [keys |-> [i \in 1..n |-> ms.keys[p[i]]], get |-> ms.get])
                     = [markerSets |-> markerSets,
                        pendingSetUpdates |-> pendingSetUpdates]
            /\ \A i \in 1..n : \A s2 \in SetIds \ {ms.keys[i]} :
                  SameSet(ApplyBucket(SetsBefore, ms.keys[i], ms.get[ms.keys[i]]),
                          SetsBefore, s2)

\* An update with buckets for two sets: one deleted its set, the other
\* changed a marker of its set.
TwoBucketsApplied ==
    /\ Reconciled
    /\ Len(updates.markerSets.keys) = 2
    /\ DOMAIN before.markerSets = SetIds
    /\ DOMAIN markerSets = {"s2"}
    /\ markerSets["s2"] # before.markerSets["s2"]

---------------------------------------------------------------------------
(* Termination of the merge of a Set of snapshots.                         *)

\* The calls of SET_PLAYERS_ASYNC on the Set that found it non-empty.
CallsOnSnapshots == SelectSeq(loaded.calls, LAMBDA taken : taken > 0)

\* C24: a call of SET_PLAYERS_ASYNC on a non-empty Set leaves it strictly
\* smaller; a Set of n snapshots is empty after exactly ceil(n / 10) calls
\* on it; and a Set that is not empty is empty eventually, the caller
\* calling again while snapshots remain.
DrainTerminates ==
    /\ []((Merged /\ merged.input # <<>>) =>
              Len(playersInput) < Len(merged.input))
    /\ []((loaded # NoSnapshot /\ loaded.calls # <<>> /\ playersInput = <<>>) =>
              /\ Len(CallsOnSnapshots) =
                    (Len(loaded.input) + MergeLimit - 1) \div MergeLimit
              /\ \A k \in 1..Len(loaded.calls) :
                    loaded.calls[k] = 0 => Len(loaded.input) = 0)
    /\ (playersInput # <<>>) ~> (playersInput = <<>>)

\* The largest Set, empty after three calls.
DrainedInThree ==
    /\ loaded # NoSnapshot
    /\ Len(loaded.input) = MaxPlayers
    /\ playersInput = <<>>
    /\ Len(loaded.calls) = 3

---------------------------------------------------------------------------
(* The pending queues as the renderer's replay log.                        *)

\* The queues of the set hold nothing.
QueuesEmpty(s) == \A c \in Categories : pendingSetUpdates[s][c] = <<>>

\* C25: the renderer holds a copy of every set of the model; whenever the
\* queues of a set are empty the copy's maps are the set's maps; and every
\* pending entry has been applied to the model already: the set's map is
\* the copy's map with the pending entries applied in queue order.
ReplicaFollows ==
    /\ DOMAIN replica = DOMAIN markerSets
    /\ \A s \in DOMAIN markerSets :
          /\ QueuesEmpty(s) => replica[s] = CopyOf(markerSets[s])
          /\ \A c \in Categories :
                ApplyUpdates(replica[s][c], pendingSetUpdates[s][c]) =
                    markerSets[s][CategoryMap[c]]

\* The renderer has popped and applied every update of a set that a
\* response changed after the marker fetch.
ReplicaCaughtUp ==
    /\ AtSuspension
    /\ polls > 0
    /\ "s1" \in DOMAIN markerSets
    /\ QueuesEmpty("s1")
    /\ markerSets["s1"] = [FetchedS1 EXCEPT !.markers = markerSets["s1"].markers]
    /\ markerSets["s1"].markers # FetchedS1.markers
    /\ replica["s1"].markerUpdates = markerSets["s1"].markers

---------------------------------------------------------------------------
(* The keys of the player registry.                                        *)

\* C26: every entry of the registry is stored under its account;
\* SET_PLAYERS_ASYNC leaves the account of every entry it found as it was;
\* and the entries SYNC_PLAYERS deleted are the ones whose account it
\* tested and did not find in keep.
KeyedByAccount ==
    /\ \A key \in DOMAIN players : players[key].account = key
    /\ Merged =>
          \A key \in DOMAIN merged.players :
              /\ key \in DOMAIN players
              /\ players[key].account = merged.players[key].account
    /\ Synced =>
          DOMAIN players =
              {key \in DOMAIN merged.players :
                  merged.players[key].account \in merged.keep}

\* A registry that was merged into twice, with entries found and entries
\* inserted, of which SYNC_PLAYERS then deleted some and kept others.
SyncedAfterMerges ==
    /\ Synced
    /\ loaded # NoSnapshot
    /\ loaded.players # EmptyMap
    /\ loaded.calls # <<>>
    /\ players # EmptyMap
    /\ DOMAIN players # DOMAIN merged.players
    /\ \E key \in DOMAIN players : key \notin DOMAIN loaded.players

---------------------------------------------------------------------------
(* ADD_MARKER_SET_UPDATES applied again to what it left.                   *)

\* ADD_MARKER_SET_UPDATES run on the store as it is.
AppliedAgain ==
    AddMarkerSetUpdates([markerSets |-> markerSets,
                         pendingSetUpdates |-> pendingSetUpdates],
                        updates.markerSets)

\* C27: ADD_MARKER_SET_UPDATES applied a second time to the buckets it has
\* just applied leaves the marker sets as the first application left them
\* (ids, scalar fields, the four maps); the queues are those of the sets,
\* each grown by the lists of its bucket once more.
AppliedTwiceAsOnce ==
    Reconciled =>
        /\ AppliedAgain.markerSets = markerSets
        /\ DOMAIN AppliedAgain.pendingSetUpdates = DOMAIN markerSets
        /\ \A s \in DOMAIN markerSets, c \in Categories :
              AppliedAgain.pendingSetUpdates[s][c] =
                  pendingSetUpdates[s][c] \o
                      (IF s \in DOMAIN updates.markerSets.get
                       THEN updates.markerSets.get[s][c] ELSE <<>>)

\* The buckets created a set the store did not have, with a marker in it,
\* next to a set it had.
CreatedWithMarker ==
    /\ Reconciled
    /\ before.markerSets # EmptyMap
    /\ \E s \in DOMAIN markerSets :
          /\ s \notin DOMAIN before.markerSets
          /\ markerSets[s].markers # EmptyMap

---------------------------------------------------------------------------
(* Mark-and-sweep against the latest Set of snapshots.                     *)

\* SYNC_PLAYERS was called with the accounts of the Set, the Set was then
\* merged until it was empty, and nothing else was done to the registry.
SweptThenMerged ==
    /\ loaded # NoSnapshot
    /\ loaded.sweep = "first"
    /\ loaded.calls # <<>>
    /\ playersInput = <<>>

\* C28: after SYNC_PLAYERS with the accounts of a Set and the merge of the
\* whole Set, the accounts of the registry are the accounts of the Set,
\* whatever the registry held.
SweepThenMergeExact ==
    SweptThenMerged => DOMAIN players = AccountsIn(loaded.input)

\* A registry that held accounts of the Set and others, pruned and then
\* merged into in more than one call.
SweptSomeMergedAll ==
    /\ SweptThenMerged
    /\ Len(loaded.calls) > 1
    /\ DOMAIN loaded.players \cap AccountsIn(loaded.input) # {}
    /\ DOMAIN loaded.players \ AccountsIn(loaded.input) # {}
    /\ AccountsIn(loaded.input) \ DOMAIN loaded.players # {}

---------------------------------------------------------------------------
(* Selection of the current map.                                           *)

\* The world and the map of the world are registered.
Registered(worldName, mapName) ==
    /\ worldName \in DOMAIN worlds
    /\ Join(worldName, mapName) \in DOMAIN maps

\* C29: SET_CURRENT_MAP with a world or a map that is not registered throws
\* a RangeError and changes nothing; with a registered pair it empties the
\* marker sets, their queues and the tile queue when the world registered
\* under the name is not the current world, and leaves the three as they
\* are when it is.
MapSelection ==
    [][\A w \in WorldNames, m \in MapNames :
          SET_CURRENT_MAP(w, m) =>
              /\ ~Registered(w, m) =>
                    /\ raised' = "RangeError"
                    /\ UNCHANGED <<storeVars, updateTimestamp, worldVars,
                                   pollVars, playerVars, requestVars, uiVars,
                                   rendererVars>>
              /\ Registered(w, m) =>
                    /\ raised' = "none"
                    /\ currentWorld # Some(worlds[w]) =>
                          /\ markerSets' = EmptyMap
                          /\ pendingSetUpdates' = EmptyMap
                          /\ pendingTileUpdates' = <<>>
                    /\ currentWorld = Some(worlds[w]) =>
                          UNCHANGED <<markerSets, pendingSetUpdates,
                                      pendingTileUpdates>>]_vars

\* A selection was refused while a map is current and the store holds
\* marker sets and pending tiles.
SelectionRefused ==
    /\ raised = "RangeError"
    /\ currentMap # undefined
    /\ markerSets # EmptyMap
    /\ pendingTileUpdates # <<>>

---------------------------------------------------------------------------
(* The visible elements on a small screen.                                 *)

\* C30: while the screen is small at most one element is visible.
SmallScreenOneElement == smallScreen => Len(visibleElements) <= 1

\* The screen is small and the one element shown last is visible.
OneElementOnSmallScreen ==
    /\ smallScreen
    /\ visibleElements = <<"settings">>

=============================================================================
